---------------------------- MODULE Spec2Model ----------------------------
(***************************************************************************)
(* A model of jupyter_deepagents/agent_wrapper.py: the AgentWrapper        *)
(* generators `stream` and `resume_from_interrupt`, which consume the      *)
(* loaded agent's stream of updates and yield normalized events.           *)
(*                                                                         *)
(* Python values are tagged records [t |-> <type name>, v |-> <payload>]:  *)
(*   none   v = 0                 int    v = the number                    *)
(*   bool   v = TRUE / FALSE      str    v = the text, a token sequence    *)
(*   list   v = sequence of values      tuple  likewise                    *)
(*   dict   v = sequence of [k |-> key value, v |-> value], in key order   *)
(*   any other t is the class name of an attribute-bearing object, and v   *)
(*   the sequence of [k |-> attribute name, v |-> value] it carries.       *)
(* A text is the sequence of its lexemes: each punctuation character       *)
(* ([ ] { } , : ' " \) alone, each run of blanks, each other run of        *)
(* characters (a word).                                                    *)
(***************************************************************************)
EXTENDS Integers, Sequences, FiniteSets, TLC

(***************************************************************************)
(* Python values                                                           *)
(***************************************************************************)
None == [t |-> "none", v |-> 0]

PyInt(n) == [t |-> "int", v |-> n]

PyBool(b) == [t |-> "bool", v |-> b]

Text(toks) == [t |-> "str", v |-> toks]

Str(w) == [t |-> "str", v |-> IF w = "" THEN <<>> ELSE <<w>>]

List(xs) == [t |-> "list", v |-> xs]

Tuple(xs) == [t |-> "tuple", v |-> xs]

Dict(kvs) == [t |-> "dict", v |-> kvs]

Obj(cls, kvs) == [t |-> cls, v |-> kvs]

KV(key, val) == [k |-> key, v |-> val]

BuiltinTypes == {"none", "int", "bool", "str", "list", "tuple", "dict"}

isinstance(x, ty) == x.t = ty

\* bool(x): Python truthiness, as `if x:` and `x or y` use it.
Truthy(x) ==
  CASE x.t = "none" -> FALSE
    [] x.t = "bool" -> x.v
    [] x.t = "int" -> x.v # 0
    [] x.t \in {"str", "list", "tuple", "dict"} -> Len(x.v) > 0
    [] OTHER -> TRUE

\* The entries of a dict, or the attributes of an object, under key `key`.
Entries(x, key) == SelectSeq(x.v, LAMBDA e : e.k = key)

\* key in d, for a dict d.
HasKey(d, key) == Entries(d, key) # <<>>

\* d.get(name, default), for a dict d and a string name.
dict_get(d, name, default) ==
  IF HasKey(d, Str(name)) THEN Entries(d, Str(name))[1].v ELSE default

\* hasattr(x, name): none of the attribute names the wrapper asks for is an
\* attribute of a builtin value (a dict has no `value`, `name`, `content`, ...).
hasattr(x, name) == x.t \notin BuiltinTypes /\ Entries(x, Str(name)) # <<>>

\* getattr(x, name, default)
getattr(x, name, default) ==
  IF hasattr(x, name) THEN Entries(x, Str(name))[1].v ELSE default

\* d[key] = val on a dict under construction: a repeated key keeps its place.
DictSet(kvs, key, val) ==
  IF \E i \in 1..Len(kvs) : kvs[i].k = key
  THEN [i \in 1..Len(kvs) |-> IF kvs[i].k = key THEN KV(key, val) ELSE kvs[i]]
  ELSE Append(kvs, KV(key, val))

(***************************************************************************)
(* The library parsers the wrapper calls: json.loads, ast.literal_eval and *)
(* re.search(r'\[.*\]', s, re.DOTALL), on texts given as lexeme sequences. *)
(* A parse result is [ok, v, n]: whether a value was read, the value, and  *)
(* the index of the first lexeme after it.                                 *)
(***************************************************************************)
Blanks == {" ", "  ", "   "}

Digits == {"0", "1", "2", "3", "5", "7"}

DigitValue(w) == CASE w = "0" -> 0 [] w = "1" -> 1 [] w = "2" -> 2 [] w = "3" -> 3 [] w = "5" -> 5 [] w = "7" -> 7

Fail == [ok |-> FALSE, v |-> None, n |-> 0]

Parsed(val, next) == [ok |-> TRUE, v |-> val, n |-> next]

RECURSIVE SkipBlanks(_, _)
SkipBlanks(s, i) == IF i <= Len(s) /\ s[i] \in Blanks THEN SkipBlanks(s, i + 1) ELSE i

\* The words that are literals: JSON's true/false/null, Python's True/False/None.
Keyword(w, mode) ==
  CASE mode = "json" /\ w = "true" -> Parsed(PyBool(TRUE), 0)
    [] mode = "json" /\ w = "false" -> Parsed(PyBool(FALSE), 0)
    [] mode = "json" /\ w = "null" -> Parsed(None, 0)
    [] mode = "py" /\ w = "True" -> Parsed(PyBool(TRUE), 0)
    [] mode = "py" /\ w = "False" -> Parsed(PyBool(FALSE), 0)
    [] mode = "py" /\ w = "None" -> Parsed(None, 0)
    [] OTHER -> Fail

\* A string literal opened by quote q, read from lexeme i on: it ends at the next
\* q that no backslash escapes. A backslash before a quote or a backslash stands
\* for that character; before any other punctuation or a blank, JSON rejects it
\* and Python keeps both characters. (A backslash before a word is an escape such
\* as \n or \t: no text of this model has one.)
Punctuation == {"[", "]", "{", "}", ",", ":", "'", "\"", "\\"}

RECURSIVE ScanString(_, _, _, _, _)
ScanString(s, i, q, mode, acc) ==
  IF i > Len(s) THEN Fail
  ELSE IF s[i] = q THEN Parsed(Text(acc), i + 1)
  ELSE IF s[i] # "\\" THEN ScanString(s, i + 1, q, mode, Append(acc, s[i]))
  ELSE IF i + 1 > Len(s) THEN Fail
  ELSE IF s[i + 1] \in {"\"", "\\"} \/ (mode = "py" /\ s[i + 1] = "'")
    THEN ScanString(s, i + 2, q, mode, Append(acc, s[i + 1]))
  ELSE IF mode = "py" /\ s[i + 1] \in Punctuation \cup Blanks
    THEN ScanString(s, i + 2, q, mode, acc \o <<s[i], s[i + 1]>>)
  ELSE Fail

\* The element of a one-element set. Only({e(x) : x \in {v}}) is e(v) with v
\* computed once, however often e uses it: the parsers below are written so,
\* for each return value of a nested call is used several times.
Only(S) == CHOOSE x \in S : TRUE

RECURSIVE ParseValue(_, _, _), ParseList(_, _, _, _), ParseDict(_, _, _, _), ParseEntry(_, _, _, _)
ParseValue(s, i0, mode) ==
  Only({ IF i > Len(s) THEN Fail
         ELSE CASE s[i] = "[" -> ParseList(s, i + 1, mode, <<>>)
                [] s[i] = "{" -> ParseDict(s, i + 1, mode, <<>>)
                [] s[i] = "\"" -> ScanString(s, i + 1, "\"", mode, <<>>)
                [] s[i] = "'" /\ mode = "py" -> ScanString(s, i + 1, "'", mode, <<>>)
                [] s[i] \in Digits -> Parsed(PyInt(DigitValue(s[i])), i + 1)
                [] Keyword(s[i], mode).ok -> Parsed(Keyword(s[i], mode).v, i + 1)
                [] OTHER -> Fail
         : i \in {SkipBlanks(s, i0)} })

\* After "[" or after a "," of a list, the elements read so far being acc.
\* Python accepts a trailing comma, JSON does not.
ParseList(s, i0, mode, acc) ==
  Only({ IF i > Len(s) THEN Fail
         ELSE IF s[i] = "]" /\ (acc = <<>> \/ mode = "py") THEN Parsed(List(acc), i + 1)
         ELSE Only({ IF ~r.ok THEN Fail
                     ELSE Only({ IF j > Len(s) THEN Fail
                                 ELSE IF s[j] = "," THEN ParseList(s, j + 1, mode, Append(acc, r.v))
                                 ELSE IF s[j] = "]" THEN Parsed(List(Append(acc, r.v)), j + 1)
                                 ELSE Fail
                                 : j \in {SkipBlanks(s, r.n)} })
                     : r \in {ParseValue(s, i, mode)} })
         : i \in {SkipBlanks(s, i0)} })

\* What follows a key that was read as `key`, the entries read so far being acc.
ParseEntry(s, mode, acc, key) ==
  Only({ IF c > Len(s) THEN Fail
         ELSE IF key.v.t \notin (IF mode = "json" THEN {"str"} ELSE {"str", "int"}) \/ s[c] # ":" THEN Fail
         ELSE Only({ IF ~r.ok THEN Fail
                     ELSE Only({ IF j > Len(s) THEN Fail
                                 ELSE IF s[j] = "," THEN ParseDict(s, j + 1, mode, DictSet(acc, key.v, r.v))
                                 ELSE IF s[j] = "}" THEN Parsed(Dict(DictSet(acc, key.v, r.v)), j + 1)
                                 ELSE Fail
                                 : j \in {SkipBlanks(s, r.n)} })
                     : r \in {ParseValue(s, c + 1, mode)} })
         : c \in {SkipBlanks(s, key.n)} })

\* After "{" or after a "," of a dict. A JSON key is a string; the Python keys
\* read here are strings and numbers.
ParseDict(s, i0, mode, acc) ==
  Only({ IF i > Len(s) THEN Fail
         ELSE IF s[i] = "}" /\ (acc = <<>> \/ mode = "py") THEN Parsed(Dict(acc), i + 1)
         ELSE Only({ IF key.ok THEN ParseEntry(s, mode, acc, key) ELSE Fail
                     : key \in {ParseValue(s, i, mode)} })
         : i \in {SkipBlanks(s, i0)} })

\* The whole text as one value: nothing but blanks may follow it.
Loads(x, mode) ==
  IF x.t # "str" THEN Fail
  ELSE Only({ IF r.ok /\ SkipBlanks(x.v, r.n) > Len(x.v) THEN Parsed(r.v, r.n) ELSE Fail
              : r \in {ParseValue(x.v, 1, mode)} })

\* json.loads(x); ~ok stands for the exception it raises.
json_loads(x) == Loads(x, "json")

\* ast.literal_eval(x); ~ok stands for the exception it raises.
ast_literal_eval(x) == Loads(x, "py")

\* re.search(r'\[.*\]', x, re.DOTALL): the match runs from the first "[" to the
\* last "]" after it; ok = FALSE is no match (None).
re_search_array(x) ==
  LET opens == {i \in 1..Len(x.v) : x.v[i] = "["}
      first == CHOOSE i \in opens : \A j \in opens : i <= j
      closes == {i \in 1..Len(x.v) : x.v[i] = "]" /\ i > first}
      last == CHOOSE i \in closes : \A j \in closes : j <= i
  IN IF opens = {} THEN Fail
     ELSE IF closes = {} THEN Fail
     ELSE Parsed(Text(SubSeq(x.v, first, last)), last + 1)


(***************************************************************************)
(* The Python operations the wrapper applies to the values it is handed    *)
(***************************************************************************)
\* Whether `for _ in x` can start; it raises TypeError otherwise.
Iterable(x) == x.t \in {"list", "tuple", "dict", "str"}

\* What `for _ in x` runs over: the elements of a list or tuple, the keys of a
\* dict, the characters of a str (one per lexeme: the strs iterated in this model
\* are made of one-character lexemes).
Items(x) ==
  CASE x.t \in {"list", "tuple"} -> x.v
    [] x.t = "dict" -> [i \in 1..Len(x.v) |-> x.v[i].k]
    [] x.t = "str" -> [i \in 1..Len(x.v) |-> Str(x.v[i])]
    [] OTHER -> <<>>

\* type(x).__name__
TypeName(x) == IF x.t = "none" THEN "NoneType" ELSE x.t

\* str(e) of the TypeError that iterating x raises.
NotIterable(x) == "'" \o TypeName(x) \o "' object is not iterable"

\* a or b
py_or(a, b) == IF Truthy(a) THEN a ELSE b

IsWord(w) == w \notin Punctuation \cup Blanks

\* a + b on texts: the lexemes that meet at the seam join when both are blanks
\* or both are words.
Concat(a, b) ==
  IF a = <<>> THEN b
  ELSE IF b = <<>> THEN a
  ELSE LET x == a[Len(a)]
           y == b[1]
       IN IF (x \in Blanks /\ y \in Blanks) \/ (IsWord(x) /\ IsWord(y))
          THEN SubSeq(a, 1, Len(a) - 1) \o <<x \o y>> \o SubSeq(b, 2, Len(b))
          ELSE a \o b

\* s.strip(), s a text
py_strip(s) ==
  LET a == IF s # <<>> /\ s[1] \in Blanks THEN 2 ELSE 1
      b == IF s # <<>> /\ s[Len(s)] \in Blanks THEN Len(s) - 1 ELSE Len(s)
  IN SubSeq(s, a, b)

\* repr(x), and str(x) of anything but a str, as a text. (The strs printed in
\* this model hold no quote and no backslash, so repr is the str in single
\* quotes; the numbers are single digits.)
RECURSIVE py_repr(_), ReprItems(_, _), ReprPairs(_, _)
py_repr(x) ==
  CASE x.t = "none" -> <<"None">>
    [] x.t = "bool" -> IF x.v THEN <<"True">> ELSE <<"False">>
    [] x.t = "int" -> <<ToString(x.v)>>
    [] x.t = "str" -> <<"'">> \o x.v \o <<"'">>
    [] x.t = "list" -> <<"[">> \o ReprItems(x.v, 1) \o <<"]">>
    [] x.t = "dict" -> <<"{">> \o ReprPairs(x.v, 1) \o <<"}">>
    [] OTHER -> <<"<" \o x.t, " ", "object>">>

ReprItems(xs, i) ==
  IF i > Len(xs) THEN <<>>
  ELSE py_repr(xs[i]) \o (IF i < Len(xs) THEN <<",", " ">> ELSE <<>>) \o ReprItems(xs, i + 1)

ReprPairs(kvs, i) ==
  IF i > Len(kvs) THEN <<>>
  ELSE py_repr(kvs[i].k) \o <<":", " ">> \o py_repr(kvs[i].v)
       \o (IF i < Len(kvs) THEN <<",", " ">> ELSE <<>>) \o ReprPairs(kvs, i + 1)

\* str(x)
py_str(x) == IF x.t = "str" THEN x ELSE Text(py_repr(x))

\* " ".join(parts), every part a str
RECURSIVE py_join(_, _)
py_join(parts, i) ==
  IF i > Len(parts) THEN <<>>
  ELSE IF i = Len(parts) THEN parts[i].v
  ELSE Concat(Concat(parts[i].v, <<" ">>), py_join(parts, i + 1))

(***************************************************************************)
(* What a generator body does from one point on: the events it yields and  *)
(* the message of the exception that ends it ("" when none is raised).     *)
(***************************************************************************)
Yields(evs) == [ev |-> evs, exc |-> ""]

Raises(msg) == [ev |-> <<>>, exc |-> msg]

\* r1 and then, unless r1 raised, r2.
Then(r1, r2) == IF r1.exc # "" THEN r1 ELSE [ev |-> r1.ev \o r2.ev, exc |-> r2.exc]


(***************************************************************************)
(* re.sub(tool_dict_pattern, '', s, flags=re.DOTALL) on texts.  A pattern  *)
(* is a sequence of elements: a literal lexeme, \s* ("ws"), [^']+ ("nq")   *)
(* and .*? ("lazy").  Match gives the index after the leftmost-first match *)
(* of pat[j..] at s[i..], 0 when there is none.                            *)
(***************************************************************************)
Lit(w) == [k |-> "lit", w |-> w]

Ws == [k |-> "ws", w |-> ""]

Nq == [k |-> "nq", w |-> ""]

Lazy == [k |-> "lazy", w |-> ""]

RECURSIVE Match(_, _, _, _), MatchLazy(_, _, _, _, _), MatchNq(_, _, _, _, _)
Match(s, i, pat, j) ==
  IF j > Len(pat) THEN i
  ELSE CASE pat[j].k = "lit" ->
              IF i <= Len(s) /\ s[i] = pat[j].w THEN Match(s, i + 1, pat, j + 1) ELSE 0
         [] pat[j].k = "ws" ->
              LET taken == IF i <= Len(s) /\ s[i] \in Blanks THEN Match(s, i + 1, pat, j + 1) ELSE 0
              IN IF taken # 0 THEN taken ELSE Match(s, i, pat, j + 1)
         [] pat[j].k = "nq" ->
              LET run == {k \in 1..(Len(s) - i + 1) : \A m \in i..(i + k - 1) : s[m] # "'"}
              IN MatchNq(s, i, pat, j, Cardinality(run))
         [] pat[j].k = "lazy" -> MatchLazy(s, i, pat, j, 0)

\* .*? taking k lexemes, then one more, ... until the rest of the pattern matches.
MatchLazy(s, i, pat, j, k) ==
  IF i + k > Len(s) + 1 THEN 0
  ELSE LET rest == Match(s, i + k, pat, j + 1)
       IN IF rest # 0 THEN rest ELSE MatchLazy(s, i, pat, j, k + 1)

\* [^']+ taking k lexemes, then one fewer, ... until the rest of the pattern matches.
MatchNq(s, i, pat, j, k) ==
  IF k < 1 THEN 0
  ELSE LET rest == Match(s, i + k, pat, j + 1)
       IN IF rest # 0 THEN rest ELSE MatchNq(s, i, pat, j, k - 1)

\* re.sub(pat, '', s): every non-overlapping match, leftmost first, is removed.
RECURSIVE re_sub(_, _, _)
re_sub(pat, s, i) ==
  IF i > Len(s) THEN <<>>
  ELSE LET after == Match(s, i, pat, 1)
       IN IF after > i THEN re_sub(pat, s, after)
          ELSE Concat(<<s[i]>>, re_sub(pat, s, i + 1))

\* 'w' as the pattern spells it
Quoted(w) == <<Lit("'"), Lit(w), Lit("'")>>


(***************************************************************************)
(* AgentWrapper.stream: what the body of its loop does with one update     *)
(***************************************************************************)
\* The shape dispatch on update["__interrupt__"]: the raw action requests.
stream_action_requests(interrupt_value) ==
  IF isinstance(interrupt_value, "tuple")
  THEN IF Len(interrupt_value.v) = 1
       THEN LET interrupt_obj == interrupt_value.v[1] IN
            IF hasattr(interrupt_obj, "value") /\ isinstance(getattr(interrupt_obj, "value", None), "dict")
            THEN dict_get(getattr(interrupt_obj, "value", None), "action_requests", List(<<>>))
            ELSE getattr(interrupt_obj, "action_requests", List(<<>>))
       ELSE IF Len(interrupt_value.v) = 2 THEN interrupt_value.v[1]
       ELSE List(<<>>)
  ELSE getattr(interrupt_value, "action_requests", List(<<>>))

\* stream_review_configs with a fault: a two-element tuple is unpacked into its
\* first element twice.
stream_review_configs_first(interrupt_value) ==
  IF isinstance(interrupt_value, "tuple")
  THEN IF Len(interrupt_value.v) = 1
       THEN LET interrupt_obj == interrupt_value.v[1] IN
            IF hasattr(interrupt_obj, "value") /\ isinstance(getattr(interrupt_obj, "value", None), "dict")
            THEN dict_get(getattr(interrupt_obj, "value", None), "review_configs", List(<<>>))
            ELSE getattr(interrupt_obj, "review_configs", List(<<>>))
       ELSE IF Len(interrupt_value.v) = 2 THEN interrupt_value.v[1]
       ELSE List(<<>>)
  ELSE getattr(interrupt_value, "review_configs", List(<<>>))

\* The shape dispatch on update["__interrupt__"]: the raw review configs.
stream_review_configs(interrupt_value) ==
  IF isinstance(interrupt_value, "tuple")
  THEN IF Len(interrupt_value.v) = 1
       THEN LET interrupt_obj == interrupt_value.v[1] IN
            IF hasattr(interrupt_obj, "value") /\ isinstance(getattr(interrupt_obj, "value", None), "dict")
            THEN dict_get(getattr(interrupt_obj, "value", None), "review_configs", List(<<>>))
            ELSE getattr(interrupt_obj, "review_configs", List(<<>>))
       ELSE IF Len(interrupt_value.v) = 2 THEN interrupt_value.v[2]
       ELSE List(<<>>)
  ELSE getattr(interrupt_value, "review_configs", List(<<>>))

\* stream_action_dict with a fault: 'name' is preferred to 'tool'.
stream_action_dict_name_first(action, i) ==
  IF isinstance(action, "dict")
  THEN [tool |-> py_or(dict_get(action, "name", None), dict_get(action, "tool", None)),
        tool_call_id |-> dict_get(action, "tool_call_id", Str("call_" \o ToString(i))),
        args |-> dict_get(action, "args", Dict(<<>>)),
        description |-> dict_get(action, "description", None)]
  ELSE [tool |-> py_or(getattr(action, "name", None), getattr(action, "tool", None)),
        tool_call_id |-> getattr(action, "tool_call_id", Str("call_" \o ToString(i))),
        args |-> getattr(action, "args", Dict(<<>>)),
        description |-> getattr(action, "description", None)]

\* One raw action request, at 0-based position i, as the event carries it.
stream_action_dict(action, i) ==
  IF isinstance(action, "dict")
  THEN [tool |-> py_or(dict_get(action, "tool", None), dict_get(action, "name", None)),
        tool_call_id |-> dict_get(action, "tool_call_id", Str("call_" \o ToString(i))),
        args |-> dict_get(action, "args", Dict(<<>>)),
        description |-> dict_get(action, "description", None)]
  ELSE [tool |-> py_or(getattr(action, "tool", None), getattr(action, "name", None)),
        tool_call_id |-> getattr(action, "tool_call_id", Str("call_" \o ToString(i))),
        args |-> getattr(action, "args", Dict(<<>>)),
        description |-> getattr(action, "description", None)]

\* One raw review config as the event carries it.
stream_config_dict(config) ==
  [allowed_decisions |->
     getattr(config, "allowed_decisions",
             IF isinstance(config, "dict") THEN dict_get(config, "allowed_decisions", None)
             ELSE List(<<>>))]

\* interrupt_data of the two raw lists: both loops have run.
stream_interrupt_data(action_requests, review_configs) ==
  [action_requests |-> [i \in 1..Len(Items(action_requests)) |->
                          stream_action_dict(Items(action_requests)[i], i - 1)],
   review_configs |-> [i \in 1..Len(Items(review_configs)) |->
                         stream_config_dict(Items(review_configs)[i])]]

\* The branch of an update that carries "__interrupt__".
stream_interrupt(update) ==
  LET interrupt_value == dict_get(update, "__interrupt__", None)
      action_requests == stream_action_requests(interrupt_value)
      review_configs == stream_review_configs(interrupt_value)
  IN IF ~Iterable(action_requests) THEN Raises(NotIterable(action_requests))
     ELSE IF ~Iterable(review_configs) THEN Raises(NotIterable(review_configs))
     ELSE Yields(<<[interrupt |-> stream_interrupt_data(action_requests, review_configs),
                    status |-> "interrupt"]>>)

\* stream_reflection with a fault: only a failure of json.loads keeps the raw
\* str, a parsed value that is no dict has no reflection.
stream_reflection_strict(tool_content) ==
  IF isinstance(tool_content, "str")
  THEN LET parsed == json_loads(tool_content) IN
       IF ~parsed.ok THEN tool_content
       ELSE IF isinstance(parsed.v, "dict") THEN dict_get(parsed.v, "reflection", None)
       ELSE None
  ELSE IF isinstance(tool_content, "dict") THEN dict_get(tool_content, "reflection", None)
  ELSE None

\* The reflection of a think_tool result: a str is tried as JSON and kept raw
\* when json.loads or the .get on its result raises.
stream_reflection(tool_content) ==
  IF isinstance(tool_content, "str")
  THEN LET parsed == json_loads(tool_content) IN
       IF parsed.ok /\ isinstance(parsed.v, "dict")
       THEN dict_get(parsed.v, "reflection", None)
       ELSE tool_content
  ELSE IF isinstance(tool_content, "dict") THEN dict_get(tool_content, "reflection", None)
  ELSE None

\* stream_todos with a fault: the array found in a str is read as JSON only.
stream_todos_json_only(tool_content) ==
  IF isinstance(tool_content, "str")
  THEN LET match == re_search_array(tool_content) IN
       IF match.ok
       THEN LET array_str == match.v IN
            IF json_loads(array_str).ok THEN json_loads(array_str).v
            ELSE None
       ELSE LET parsed == json_loads(tool_content) IN
            IF ~parsed.ok THEN None
            ELSE IF isinstance(parsed.v, "dict")
              THEN LET todos == dict_get(parsed.v, "todos", None) IN
                   IF isinstance(todos, "str") /\ json_loads(todos).ok
                   THEN json_loads(todos).v
                   ELSE todos
            ELSE IF isinstance(parsed.v, "list") THEN parsed.v
            ELSE None
  ELSE IF isinstance(tool_content, "dict")
    THEN LET todos == dict_get(tool_content, "todos", None) IN
         IF isinstance(todos, "str") /\ json_loads(todos).ok THEN json_loads(todos).v
         ELSE todos
  ELSE IF isinstance(tool_content, "list") THEN tool_content
  ELSE None

\* The todos of a write_todos result.
stream_todos(tool_content) ==
  IF isinstance(tool_content, "str")
  THEN LET match == re_search_array(tool_content) IN
       IF match.ok
       THEN LET array_str == match.v IN
            IF ast_literal_eval(array_str).ok THEN ast_literal_eval(array_str).v
            ELSE IF json_loads(array_str).ok THEN json_loads(array_str).v
            ELSE None
       ELSE LET parsed == json_loads(tool_content) IN
            IF ~parsed.ok THEN None
            ELSE IF isinstance(parsed.v, "dict")
              THEN LET todos == dict_get(parsed.v, "todos", None) IN
                   IF isinstance(todos, "str") /\ json_loads(todos).ok
                   THEN json_loads(todos).v
                   ELSE todos
            ELSE IF isinstance(parsed.v, "list") THEN parsed.v
            ELSE None
  ELSE IF isinstance(tool_content, "dict")
    THEN LET todos == dict_get(tool_content, "todos", None) IN
         IF isinstance(todos, "str") /\ json_loads(todos).ok THEN json_loads(todos).v
         ELSE todos
  ELSE IF isinstance(tool_content, "list") THEN tool_content
  ELSE None

\* str(e) of the AttributeError that x.name raises.
NoAttribute(x, name) == "'" \o TypeName(x) \o "' object has no attribute '" \o name \o "'"

\* stream_ToolMessage with a fault: the result of any other tool is yielded as
\* a chunk.
stream_ToolMessage_surfaced(last_message) ==
  IF hasattr(last_message, "name") /\ getattr(last_message, "name", None) = Str("think_tool")
  THEN IF ~hasattr(last_message, "content") THEN Raises(NoAttribute(last_message, "content"))
       ELSE LET reflection == stream_reflection(getattr(last_message, "content", None)) IN
            IF Truthy(reflection)
            THEN Yields(<<[chunk |-> reflection, status |-> "streaming"]>>)
            ELSE Yields(<<>>)
  ELSE IF hasattr(last_message, "name") /\ getattr(last_message, "name", None) = Str("write_todos")
  THEN IF ~hasattr(last_message, "content") THEN Raises(NoAttribute(last_message, "content"))
       ELSE LET todos == stream_todos(getattr(last_message, "content", None)) IN
            IF Truthy(todos) /\ isinstance(todos, "list")
            THEN Yields(<<[todo_list |-> todos, status |-> "streaming"]>>)
            ELSE Yields(<<>>)
  ELSE IF Truthy(getattr(last_message, "content", None))
  THEN Yields(<<[chunk |-> getattr(last_message, "content", None), status |-> "streaming"]>>)
  ELSE Yields(<<>>)

\* The branch of a last message whose class is ToolMessage.
stream_ToolMessage(last_message) ==
  IF hasattr(last_message, "name") /\ getattr(last_message, "name", None) = Str("think_tool")
  THEN IF ~hasattr(last_message, "content") THEN Raises(NoAttribute(last_message, "content"))
       ELSE LET reflection == stream_reflection(getattr(last_message, "content", None)) IN
            IF Truthy(reflection)
            THEN Yields(<<[chunk |-> reflection, status |-> "streaming"]>>)
            ELSE Yields(<<>>)
  ELSE IF hasattr(last_message, "name") /\ getattr(last_message, "name", None) = Str("write_todos")
  THEN IF ~hasattr(last_message, "content") THEN Raises(NoAttribute(last_message, "content"))
       ELSE LET todos == stream_todos(getattr(last_message, "content", None)) IN
            IF Truthy(todos) /\ isinstance(todos, "list")
            THEN Yields(<<[todo_list |-> todos, status |-> "streaming"]>>)
            ELSE Yields(<<>>)
  ELSE Yields(<<>>)


\* The strs that " ".join receives for a content that is a list of blocks.
stream_blocks(content) ==
  [i \in 1..Len(content.v) |->
     IF isinstance(content.v[i], "dict")
     THEN dict_get(content.v[i], "text", py_str(content.v[i]))
     ELSE py_str(content.v[i])]

\* stream_tool_calls with a fault: think_tool and write_todos are not skipped.
stream_tool_calls_unfiltered(last_message) ==
  IF hasattr(last_message, "tool_calls") /\ Truthy(getattr(last_message, "tool_calls", None))
  THEN LET kept == Items(getattr(last_message, "tool_calls", None))
       IN [i \in 1..Len(kept) |->
             IF isinstance(kept[i], "dict")
             THEN [id |-> dict_get(kept[i], "id", None), name |-> dict_get(kept[i], "name", None),
                   args |-> dict_get(kept[i], "args", None)]
             ELSE [id |-> getattr(kept[i], "id", None), name |-> getattr(kept[i], "name", None),
                   args |-> getattr(kept[i], "args", Dict(<<>>))]]
  ELSE <<>>

\* tool_calls: the calls of the message but think_tool and write_todos, each as
\* {id, name, args}. (<<>> stands for None and for [] alike: both are falsy.)
stream_tool_calls(last_message) ==
  IF hasattr(last_message, "tool_calls") /\ Truthy(getattr(last_message, "tool_calls", None))
  THEN LET tcs == Items(getattr(last_message, "tool_calls", None))
           kept == SelectSeq(tcs, LAMBDA tc :
                     (IF isinstance(tc, "dict") THEN dict_get(tc, "name", None)
                      ELSE getattr(tc, "name", None)) \notin {Str("think_tool"), Str("write_todos")})
       IN [i \in 1..Len(kept) |->
             IF isinstance(kept[i], "dict")
             THEN [id |-> dict_get(kept[i], "id", None), name |-> dict_get(kept[i], "name", None),
                   args |-> dict_get(kept[i], "args", None)]
             ELSE [id |-> getattr(kept[i], "id", None), name |-> getattr(kept[i], "name", None),
                   args |-> getattr(kept[i], "args", Dict(<<>>))]]
  ELSE <<>>

\* {'id': '..', 'input': {..}, 'name': '..', 'type': 'tool_use'}
stream_tool_dict_pattern ==
  <<Lit("{")>> \o Quoted("id") \o <<Lit(":"), Ws, Lit("'"), Nq, Lit("'"), Lit(","), Ws>>
  \o Quoted("input") \o <<Lit(":"), Ws, Lit("{"), Lazy, Lit("}"), Lit(","), Ws>>
  \o Quoted("name") \o <<Lit(":"), Ws, Lit("'"), Nq, Lit("'"), Lit(","), Ws>>
  \o Quoted("type") \o <<Lit(":"), Ws>> \o Quoted("tool_use") \o <<Lit("}")>>

\* stream_clean with a fault: the dictionaries are removed only when a call
\* is left after think_tool and write_todos were skipped.
stream_clean_if_kept(content_str, last_message) ==
  LET stripped == IF Truthy(content_str) THEN py_strip(content_str.v) ELSE <<>> IN
  IF stripped # <<>> /\ Len(stream_tool_calls(last_message)) > 0
  THEN Text(py_strip(re_sub(stream_tool_dict_pattern, stripped, 1)))
  ELSE Text(stripped)

\* content_str as the chunk carries it: stripped, and with the tool-call
\* dictionaries removed when the message has tool calls.
stream_clean(content_str, last_message) ==
  LET stripped == IF Truthy(content_str) THEN py_strip(content_str.v) ELSE <<>> IN
  IF stripped # <<>> /\ hasattr(last_message, "tool_calls")
     /\ Truthy(getattr(last_message, "tool_calls", None))
  THEN Text(py_strip(re_sub(stream_tool_dict_pattern, stripped, 1)))
  ELSE Text(stripped)

\* The branch of a last message that is no ToolMessage and has a content.
stream_message(node_name, last_message) ==
  LET content == getattr(last_message, "content", None)
      parts == IF isinstance(content, "list") THEN stream_blocks(content) ELSE <<>>
      bad == {i \in 1..Len(parts) : ~isinstance(parts[i], "str")}
      content_str == IF isinstance(content, "str") THEN content
                     ELSE IF isinstance(content, "list") THEN Text(py_join(parts, 1))
                     ELSE py_str(content)
      tool_calls == stream_tool_calls(last_message)
      cleaned == stream_clean(content_str, last_message)
  IN IF bad # {}
     THEN LET first == CHOOSE i \in bad : \A j \in bad : i <= j IN
          Raises("sequence item " \o ToString(first - 1) \o ": expected str instance, "
                 \o TypeName(parts[first]) \o " found")
     ELSE IF hasattr(last_message, "tool_calls") /\ Truthy(getattr(last_message, "tool_calls", None))
             /\ ~Iterable(getattr(last_message, "tool_calls", None))
     THEN Raises(NotIterable(getattr(last_message, "tool_calls", None)))
     ELSE Yields((IF Len(tool_calls) > 0
                  THEN <<[tool_calls |-> tool_calls, node |-> node_name, status |-> "streaming"]>>
                  ELSE <<>>)
                 \o (IF Truthy(cleaned)
                     THEN <<[chunk |-> cleaned, node |-> node_name, status |-> "streaming"]>>
                     ELSE <<>>))

\* stream_node with a fault: the first message of the list is classified.
stream_node_first(node_name, state_data) ==
  IF isinstance(state_data, "dict") /\ HasKey(state_data, Str("messages"))
  THEN LET messages == dict_get(state_data, "messages", None) IN
       IF Truthy(messages)
       THEN LET last_message == IF isinstance(messages, "list") THEN messages.v[1]
                                ELSE messages
            IN IF last_message.t = "ToolMessage" THEN stream_ToolMessage(last_message)
               ELSE IF hasattr(last_message, "content") THEN stream_message(node_name, last_message)
               ELSE Yields(<<>>)
       ELSE Yields(<<>>)
  ELSE Yields(<<>>)

\* One item of update.items().
stream_node(node_name, state_data) ==
  IF isinstance(state_data, "dict") /\ HasKey(state_data, Str("messages"))
  THEN LET messages == dict_get(state_data, "messages", None) IN
       IF Truthy(messages)
       THEN LET last_message == IF isinstance(messages, "list") THEN messages.v[Len(messages.v)]
                                ELSE messages
            IN IF last_message.t = "ToolMessage" THEN stream_ToolMessage(last_message)
               ELSE IF hasattr(last_message, "content") THEN stream_message(node_name, last_message)
               ELSE Yields(<<>>)
       ELSE Yields(<<>>)
  ELSE Yields(<<>>)

\* The items of update from the i-th on, in order, until one raises.
RECURSIVE stream_items(_, _)
stream_items(update, i) ==
  IF i > Len(update.v) THEN Yields(<<>>)
  ELSE Then(stream_node(update.v[i].k, update.v[i].v), stream_items(update, i + 1))

\* The body of `for update in self.agent.stream(...)`.
stream_update(update) ==
  IF isinstance(update, "dict") /\ HasKey(update, Str("__interrupt__")) THEN stream_interrupt(update)
  ELSE IF isinstance(update, "dict") THEN stream_items(update, 1)
  ELSE Yields(<<>>)


(***************************************************************************)
(* AgentWrapper.resume_from_interrupt: what the body of its loop does with *)
(* one update                                                              *)
(***************************************************************************)
\* The shape dispatch on update["__interrupt__"]: the raw action requests.
resume_action_requests(interrupt_value) ==
  IF isinstance(interrupt_value, "tuple")
  THEN IF Len(interrupt_value.v) = 1
       THEN LET interrupt_obj == interrupt_value.v[1] IN
            IF hasattr(interrupt_obj, "value") /\ isinstance(getattr(interrupt_obj, "value", None), "dict")
            THEN dict_get(getattr(interrupt_obj, "value", None), "action_requests", List(<<>>))
            ELSE getattr(interrupt_obj, "action_requests", List(<<>>))
       ELSE IF Len(interrupt_value.v) = 2 THEN interrupt_value.v[1]
       ELSE List(<<>>)
  ELSE getattr(interrupt_value, "action_requests", List(<<>>))

\* The shape dispatch on update["__interrupt__"]: the raw review configs.
resume_review_configs(interrupt_value) ==
  IF isinstance(interrupt_value, "tuple")
  THEN IF Len(interrupt_value.v) = 1
       THEN LET interrupt_obj == interrupt_value.v[1] IN
            IF hasattr(interrupt_obj, "value") /\ isinstance(getattr(interrupt_obj, "value", None), "dict")
            THEN dict_get(getattr(interrupt_obj, "value", None), "review_configs", List(<<>>))
            ELSE getattr(interrupt_obj, "review_configs", List(<<>>))
       ELSE IF Len(interrupt_value.v) = 2 THEN interrupt_value.v[2]
       ELSE List(<<>>)
  ELSE getattr(interrupt_value, "review_configs", List(<<>>))

\* One raw action request, at 0-based position i, as the event carries it.
resume_action_dict(action, i) ==
  IF isinstance(action, "dict")
  THEN [tool |-> py_or(dict_get(action, "tool", None), dict_get(action, "name", None)),
        tool_call_id |-> dict_get(action, "tool_call_id", Str("call_" \o ToString(i))),
        args |-> dict_get(action, "args", Dict(<<>>)),
        description |-> dict_get(action, "description", None)]
  ELSE [tool |-> py_or(getattr(action, "tool", None), getattr(action, "name", None)),
        tool_call_id |-> getattr(action, "tool_call_id", Str("call_" \o ToString(i))),
        args |-> getattr(action, "args", Dict(<<>>)),
        description |-> getattr(action, "description", None)]

\* One raw review config as the event carries it.
resume_config_dict(config) ==
  [allowed_decisions |->
     getattr(config, "allowed_decisions",
             IF isinstance(config, "dict") THEN dict_get(config, "allowed_decisions", None)
             ELSE List(<<>>))]

\* interrupt_data of the two raw lists: both loops have run.
resume_interrupt_data(action_requests, review_configs) ==
  [action_requests |-> [i \in 1..Len(Items(action_requests)) |->
                          resume_action_dict(Items(action_requests)[i], i - 1)],
   review_configs |-> [i \in 1..Len(Items(review_configs)) |->
                         resume_config_dict(Items(review_configs)[i])]]

\* The branch of an update that carries "__interrupt__".
resume_interrupt(update) ==
  LET interrupt_value == dict_get(update, "__interrupt__", None)
      action_requests == resume_action_requests(interrupt_value)
      review_configs == resume_review_configs(interrupt_value)
  IN IF ~Iterable(action_requests) THEN Raises(NotIterable(action_requests))
     ELSE IF ~Iterable(review_configs) THEN Raises(NotIterable(review_configs))
     ELSE Yields(<<[interrupt |-> resume_interrupt_data(action_requests, review_configs),
                    status |-> "interrupt"]>>)

\* The reflection of a think_tool result: a str is tried as JSON and kept raw
\* when json.loads or the .get on its result raises.
resume_reflection(tool_content) ==
  IF isinstance(tool_content, "str")
  THEN LET parsed == json_loads(tool_content) IN
       IF parsed.ok /\ isinstance(parsed.v, "dict")
       THEN dict_get(parsed.v, "reflection", None)
       ELSE tool_content
  ELSE IF isinstance(tool_content, "dict") THEN dict_get(tool_content, "reflection", None)
  ELSE None

\* The todos of a write_todos result.
resume_todos(tool_content) ==
  IF isinstance(tool_content, "str")
  THEN LET match == re_search_array(tool_content) IN
       IF match.ok
       THEN LET array_str == match.v IN
            IF ast_literal_eval(array_str).ok THEN ast_literal_eval(array_str).v
            ELSE IF json_loads(array_str).ok THEN json_loads(array_str).v
            ELSE None
       ELSE LET parsed == json_loads(tool_content) IN
            IF ~parsed.ok THEN None
            ELSE IF isinstance(parsed.v, "dict")
              THEN LET todos == dict_get(parsed.v, "todos", None) IN
                   IF isinstance(todos, "str") /\ json_loads(todos).ok
                   THEN json_loads(todos).v
                   ELSE todos
            ELSE IF isinstance(parsed.v, "list") THEN parsed.v
            ELSE None
  ELSE IF isinstance(tool_content, "dict")
    THEN LET todos == dict_get(tool_content, "todos", None) IN
         IF isinstance(todos, "str") /\ json_loads(todos).ok THEN json_loads(todos).v
         ELSE todos
  ELSE IF isinstance(tool_content, "list") THEN tool_content
  ELSE None

\* The branch of a last message whose class is ToolMessage.
resume_ToolMessage(last_message) ==
  IF hasattr(last_message, "name") /\ getattr(last_message, "name", None) = Str("think_tool")
  THEN IF ~hasattr(last_message, "content") THEN Raises(NoAttribute(last_message, "content"))
       ELSE LET reflection == resume_reflection(getattr(last_message, "content", None)) IN
            IF Truthy(reflection)
            THEN Yields(<<[chunk |-> reflection, status |-> "streaming"]>>)
            ELSE Yields(<<>>)
  ELSE IF hasattr(last_message, "name") /\ getattr(last_message, "name", None) = Str("write_todos")
  THEN IF ~hasattr(last_message, "content") THEN Raises(NoAttribute(last_message, "content"))
       ELSE LET todos == resume_todos(getattr(last_message, "content", None)) IN
            IF Truthy(todos) /\ isinstance(todos, "list")
            THEN Yields(<<[todo_list |-> todos, status |-> "streaming"]>>)
            ELSE Yields(<<>>)
  ELSE Yields(<<>>)


\* The strs that " ".join receives for a content that is a list of blocks.
resume_blocks(content) ==
  [i \in 1..Len(content.v) |->
     IF isinstance(content.v[i], "dict")
     THEN dict_get(content.v[i], "text", py_str(content.v[i]))
     ELSE py_str(content.v[i])]

\* tool_calls: the calls of the message but think_tool and write_todos, each as
\* {id, name, args}. (<<>> stands for None and for [] alike: both are falsy.)
resume_tool_calls(last_message) ==
  IF hasattr(last_message, "tool_calls") /\ Truthy(getattr(last_message, "tool_calls", None))
  THEN LET tcs == Items(getattr(last_message, "tool_calls", None))
           kept == SelectSeq(tcs, LAMBDA tc :
                     (IF isinstance(tc, "dict") THEN dict_get(tc, "name", None)
                      ELSE getattr(tc, "name", None)) \notin {Str("think_tool"), Str("write_todos")})
       IN [i \in 1..Len(kept) |->
             IF isinstance(kept[i], "dict")
             THEN [id |-> dict_get(kept[i], "id", None), name |-> dict_get(kept[i], "name", None),
                   args |-> dict_get(kept[i], "args", None)]
             ELSE [id |-> getattr(kept[i], "id", None), name |-> getattr(kept[i], "name", None),
                   args |-> getattr(kept[i], "args", Dict(<<>>))]]
  ELSE <<>>

\* {'id': '..', 'input': {..}, 'name': '..', 'type': 'tool_use'}
resume_tool_dict_pattern ==
  <<Lit("{")>> \o Quoted("id") \o <<Lit(":"), Ws, Lit("'"), Nq, Lit("'"), Lit(","), Ws>>
  \o Quoted("input") \o <<Lit(":"), Ws, Lit("{"), Lazy, Lit("}"), Lit(","), Ws>>
  \o Quoted("name") \o <<Lit(":"), Ws, Lit("'"), Nq, Lit("'"), Lit(","), Ws>>
  \o Quoted("type") \o <<Lit(":"), Ws>> \o Quoted("tool_use") \o <<Lit("}")>>

\* content_str as the chunk carries it: stripped, and with the tool-call
\* dictionaries removed when the message has tool calls.
resume_clean(content_str, last_message) ==
  LET stripped == IF Truthy(content_str) THEN py_strip(content_str.v) ELSE <<>> IN
  IF stripped # <<>> /\ hasattr(last_message, "tool_calls")
     /\ Truthy(getattr(last_message, "tool_calls", None))
  THEN Text(py_strip(re_sub(resume_tool_dict_pattern, stripped, 1)))
  ELSE Text(stripped)

\* The branch of a last message that is no ToolMessage and has a content.
resume_message(node_name, last_message) ==
  LET content == getattr(last_message, "content", None)
      parts == IF isinstance(content, "list") THEN resume_blocks(content) ELSE <<>>
      bad == {i \in 1..Len(parts) : ~isinstance(parts[i], "str")}
      content_str == IF isinstance(content, "str") THEN content
                     ELSE IF isinstance(content, "list") THEN Text(py_join(parts, 1))
                     ELSE py_str(content)
      tool_calls == resume_tool_calls(last_message)
      cleaned == resume_clean(content_str, last_message)
  IN IF bad # {}
     THEN LET first == CHOOSE i \in bad : \A j \in bad : i <= j IN
          Raises("sequence item " \o ToString(first - 1) \o ": expected str instance, "
                 \o TypeName(parts[first]) \o " found")
     ELSE IF hasattr(last_message, "tool_calls") /\ Truthy(getattr(last_message, "tool_calls", None))
             /\ ~Iterable(getattr(last_message, "tool_calls", None))
     THEN Raises(NotIterable(getattr(last_message, "tool_calls", None)))
     ELSE Yields((IF Len(tool_calls) > 0
                  THEN <<[tool_calls |-> tool_calls, node |-> node_name, status |-> "streaming"]>>
                  ELSE <<>>)
                 \o (IF Truthy(cleaned)
                     THEN <<[chunk |-> cleaned, node |-> node_name, status |-> "streaming"]>>
                     ELSE <<>>))

\* One item of update.items().
resume_node(node_name, state_data) ==
  IF isinstance(state_data, "dict") /\ HasKey(state_data, Str("messages"))
  THEN LET messages == dict_get(state_data, "messages", None) IN
       IF Truthy(messages)
       THEN LET last_message == IF isinstance(messages, "list") THEN messages.v[Len(messages.v)]
                                ELSE messages
            IN IF last_message.t = "ToolMessage" THEN resume_ToolMessage(last_message)
               ELSE IF hasattr(last_message, "content") THEN resume_message(node_name, last_message)
               ELSE Yields(<<>>)
       ELSE Yields(<<>>)
  ELSE Yields(<<>>)

\* The items of update from the i-th on, in order, until one raises.
RECURSIVE resume_items(_, _)
resume_items(update, i) ==
  IF i > Len(update.v) THEN Yields(<<>>)
  ELSE Then(resume_node(update.v[i].k, update.v[i].v), resume_items(update, i + 1))

\* The body of `for update in self.agent.stream(resume_input, ...)`.
resume_update(update) ==
  IF isinstance(update, "dict") /\ HasKey(update, Str("__interrupt__")) THEN resume_interrupt(update)
  ELSE IF isinstance(update, "dict") THEN resume_items(update, 1)
  ELSE Yields(<<>>)


(***************************************************************************)
(* The loaded agent.  self.agent is None or an object whose stream yields  *)
(* updates; the agents of this model differ in the updates they yield.     *)
(***************************************************************************)
Interrupt(interrupt_value) == Dict(<<KV(Str("__interrupt__"), interrupt_value)>>)

NodeUpdate(node, messages) ==
  Dict(<<KV(Str(node), Dict(<<KV(Str("messages"), List(messages))>>))>>)

AIMessage(content, tool_calls) ==
  Obj("AIMessage", <<KV(Str("content"), content), KV(Str("tool_calls"), List(tool_calls))>>)

ToolMessage(name, content) ==
  Obj("ToolMessage", <<KV(Str("name"), Str(name)), KV(Str("content"), content)>>)

\* An assistant message "hello" from node "agent": one chunk event.
Plain == NodeUpdate("agent", <<AIMessage(Str("hello"), <<>>)>>)

\* The raw shapes of an interrupt value that carries action_requests ar and
\* review_configs rc.
Wrapped(ar, rc) ==
  Tuple(<<Obj("Interrupt", <<KV(Str("value"),
            Dict(<<KV(Str("action_requests"), ar), KV(Str("review_configs"), rc)>>))>>)>>)

Pair(ar, rc) == Tuple(<<ar, rc>>)

Object(ar, rc) ==
  Obj("HITLRequest", <<KV(Str("action_requests"), ar), KV(Str("review_configs"), rc)>>)

WrappedObject(ar, rc) == Tuple(<<Object(ar, rc)>>)

Mapping(ar, rc) == Dict(<<KV(Str("action_requests"), ar), KV(Str("review_configs"), rc)>>)

WrappedMapping(ar, rc) == Tuple(<<Mapping(ar, rc)>>)

Shaped(shape, ar, rc) ==
  CASE shape = "wrapped" -> Wrapped(ar, rc)
    [] shape = "pair" -> Pair(ar, rc)
    [] shape = "object" -> Object(ar, rc)
    [] shape = "wrapped_object" -> WrappedObject(ar, rc)
    [] shape = "mapping" -> Mapping(ar, rc)
    [] shape = "wrapped_mapping" -> WrappedMapping(ar, rc)

\* Action requests and review configs, as dicts and as objects.
ActionT == Dict(<<KV(Str("tool"), Str("t")), KV(Str("args"), Dict(<<KV(Str("x"), PyInt(1))>>))>>)

ActionN ==
  Dict(<<KV(Str("name"), Str("n")), KV(Str("tool_call_id"), Str("id7")),
         KV(Str("description"), Str("d"))>>)

ActionEmptyTool ==
  Dict(<<KV(Str("tool"), Str("")), KV(Str("name"), Str("n")), KV(Str("tool_call_id"), None)>>)

ActionBoth == Dict(<<KV(Str("tool"), Str("t")), KV(Str("name"), Str("n"))>>)

ActionObjZ == Obj("ActionRequest", <<KV(Str("tool"), None), KV(Str("name"), Str("z"))>>)

ActionObjT ==
  Obj("ActionRequest", <<KV(Str("tool"), Str("t")), KV(Str("tool_call_id"), Str("id7")),
                         KV(Str("args"), Dict(<<>>)), KV(Str("description"), Str("d"))>>)

ActionBare == Obj("ActionRequest", <<>>)

ConfigApprove == Dict(<<KV(Str("allowed_decisions"), List(<<Str("approve")>>))>>)

ConfigObj == Obj("ReviewConfig", <<KV(Str("allowed_decisions"), List(<<Str("reject")>>))>>)

ConfigBare == Obj("ReviewConfig", <<>>)

ConfigEmpty == Dict(<<>>)

Requests2 == List(<<ActionT, ActionN>>)

Configs1 == List(<<ConfigApprove>>)

Empty == List(<<>>)

\* The (action_requests, review_configs) that the agent "hitl" sends in each of
\* the shapes.
ShapeData ==
  {<<Requests2, Configs1>>, <<Empty, Empty>>, <<List(<<ActionObjT>>), List(<<ConfigObj>>)>>}

MainShapes == {"wrapped", "pair", "object"}

\* agent "hitl": well-formed interrupts in every shape, and the shapes the
\* dispatch does not know.
HitlUpdates ==
  {Interrupt(Shaped(sh, d[1], d[2])) : sh \in MainShapes, d \in ShapeData}
  \cup {Interrupt(Shaped(sh, Requests2, Configs1)) :
          sh \in {"wrapped_object", "mapping", "wrapped_mapping"}}
  \cup {Interrupt(Tuple(<<>>)), Interrupt(Tuple(<<Requests2, Configs1, Empty>>)),
        Interrupt(Obj("Other", <<>>)),
        Interrupt(Tuple(<<Obj("Interrupt", <<KV(Str("value"), Str("approve?"))>>)>>)),
        Plain}

\* agent "malformed": recognized shapes whose action_requests or review_configs
\* is missing, None or no list.
MalformedUpdates ==
  {Interrupt(Shaped(sh, None, Configs1)) : sh \in MainShapes}
  \cup {Interrupt(Shaped(sh, Requests2, None)) : sh \in {"wrapped", "pair"}}
  \cup {Interrupt(Pair(PyInt(5), Empty)), Interrupt(Pair(Text(<<"a", "b">>), Empty)),
        Interrupt(Pair(Empty, Text(<<"a", "b">>))), Interrupt(Pair(ActionT, Empty)),
        Interrupt(Pair(Empty, List(<<PyInt(5), None>>))),
        Interrupt(Tuple(<<Obj("Interrupt", <<KV(Str("value"),
                            Dict(<<KV(Str("review_configs"), Configs1)>>))>>)>>)),
        Interrupt(Tuple(<<Obj("Interrupt", <<KV(Str("value"), Dict(<<>>))>>)>>)),
        Interrupt(Pair(Requests2, Configs1)),
        Plain}

\* agent "requests": pairs whose action requests and review configs take every
\* form the two loops tell apart.
RequestLists ==
  {<<ActionT, ActionN>>, <<ActionEmptyTool, ActionObjZ, ActionT>>, <<ActionBoth>>,
   <<ActionObjT, ActionBare, PyInt(5)>>, <<ActionBare, ActionN, ActionBare>>}

ConfigLists == {<<ConfigApprove>>, <<ConfigObj, ConfigBare, ConfigEmpty>>}

RequestsUpdates ==
  {Interrupt(Pair(List(ar), List(rc))) : ar \in RequestLists, rc \in ConfigLists} \cup {Plain}


\* The contents of the think_tool results that agent "think" yields.
ThinkContents ==
  {\* '{"reflection": "done"}'
   Text(<<"{", "\"", "reflection", "\"", ":", " ", "\"", "done", "\"", "}">>),
   \* 'plain text'
   Text(<<"plain", " ", "text">>),
   \* ''
   Text(<<>>),
   \* '{"reflection": ""}'
   Text(<<"{", "\"", "reflection", "\"", ":", " ", "\"", "\"", "}">>),
   \* '{}'
   Text(<<"{", "}">>),
   \* '5'
   Str("5"),
   \* '[1]'
   Text(<<"[", "1", "]">>),
   \* '"quoted"'
   Text(<<"\"", "quoted", "\"">>),
   \* 'null'
   Str("null"),
   \* '{"reflection": null}'
   Text(<<"{", "\"", "reflection", "\"", ":", " ", "null", "}">>),
   \* '{"reflection": 5}'
   Text(<<"{", "\"", "reflection", "\"", ":", " ", "5", "}">>),
   \* {'reflection': 'r'}
   Dict(<<KV(Str("reflection"), Str("r"))>>),
   \* {'reflection': ''}
   Dict(<<KV(Str("reflection"), Text(<<>>))>>),
   \* {}
   Dict(<<>>),
   \* ['x']
   List(<<Str("x")>>),
   \* None
   None,
   \* "{'reflection': 'x'}"
   Text(<<"{", "'", "reflection", "'", ":", " ", "'", "x", "'", "}">>)}

\* The contents of the write_todos results that agent "todos" yields.
TodosContents ==
  {\* "Updated todo list to [{'content': 'a', 'status': 'pending'}]"
   Text(<<"Updated", " ", "todo", " ", "list", " ", "to", " ", "[", "{", "'", "content",
   "'", ":", " ", "'", "a", "'", ",", " ", "'", "status", "'", ":", " ", "'", "pending",
   "'", "}", "]">>),
   \* 'Updated todo list to [{"content": "a", "status": "pending"}]'
   Text(<<"Updated", " ", "todo", " ", "list", " ", "to", " ", "[", "{", "\"", "content",
   "\"", ":", " ", "\"", "a", "\"", ",", " ", "\"", "status", "\"", ":", " ", "\"",
   "pending", "\"", "}", "]">>),
   \* '[true]'
   Text(<<"[", "true", "]">>),
   \* '{"todos": [{"content": "a", "status": "pending"}]}'
   Text(<<"{", "\"", "todos", "\"", ":", " ", "[", "{", "\"", "content", "\"", ":", " ",
   "\"", "a", "\"", ",", " ", "\"", "status", "\"", ":", " ", "\"", "pending", "\"", "}",
   "]", "}">>),
   \* '{"todos": "[{\"content\": \"a\"}]"}'
   Text(<<"{", "\"", "todos", "\"", ":", " ", "\"", "[", "{", "\\", "\"", "content",
   "\\", "\"", ":", " ", "\\", "\"", "a", "\\", "\"", "}", "]", "\"", "}">>),
   \* '{"todos": "none"}'
   Text(<<"{", "\"", "todos", "\"", ":", " ", "\"", "none", "\"", "}">>),
   \* '{"todos": "5"}'
   Text(<<"{", "\"", "todos", "\"", ":", " ", "\"", "5", "\"", "}">>),
   \* '{"other": 1}'
   Text(<<"{", "\"", "other", "\"", ":", " ", "1", "}">>),
   \* 'Updated todo list to []'
   Text(<<"Updated", " ", "todo", " ", "list", " ", "to", " ", "[", "]">>),
   \* 'no array here'
   Text(<<"no", " ", "array", " ", "here">>),
   \* '[oops]'
   Text(<<"[", "oops", "]">>),
   \* 'x [1] y [2] z'
   Text(<<"x", " ", "[", "1", "]", " ", "y", " ", "[", "2", "]", " ", "z">>),
   \* {'todos': [{'content': 'a'}]}
   Dict(<<KV(Str("todos"), List(<<Dict(<<KV(Str("content"), Str("a"))>>)>>))>>),
   \* {'todos': '[{"content": "a"}]'}
   Dict(<<KV(Str("todos"), Text(<<"[", "{", "\"", "content", "\"", ":", " ", "\"", "a",
   "\"", "}", "]">>))>>),
   \* {'todos': 'bad'}
   Dict(<<KV(Str("todos"), Str("bad"))>>),
   \* [{'content': 'a'}]
   List(<<Dict(<<KV(Str("content"), Str("a"))>>)>>),
   \* []
   List(<<>>),
   \* None
   None,
   \* '5'
   Str("5"),
   \* "{'a': [1]}"
   Text(<<"{", "'", "a", "'", ":", " ", "[", "1", "]", "}">>)}

\* A tool result as the last message of node "tools", after an earlier message.
ToolUpdate(name, content) ==
  NodeUpdate("tools", <<AIMessage(Str("earlier"), <<>>), ToolMessage(name, content)>>)

ThinkUpdates == {ToolUpdate("think_tool", c) : c \in ThinkContents} \cup {Plain}

TodosUpdates == {ToolUpdate("write_todos", c) : c \in TodosContents} \cup {Plain}

\* Tool calls as the messages of agent "assistant" carry them.
CallFoo == Dict(<<KV(Str("id"), Str("x")), KV(Str("name"), Str("foo")), KV(Str("args"), Dict(<<>>))>>)

CallThink ==
  Dict(<<KV(Str("id"), Str("y")), KV(Str("name"), Str("think_tool")), KV(Str("args"), Dict(<<>>))>>)

CallTodos ==
  Dict(<<KV(Str("id"), Str("w")), KV(Str("name"), Str("write_todos")),
         KV(Str("args"), Dict(<<KV(Str("todos"), List(<<>>))>>))>>)

CallObj == Obj("ToolCall", <<KV(Str("id"), Str("z")), KV(Str("name"), Str("bar"))>>)

\* "Calling tool {'id': 'x', 'input': {}, 'name': 'foo', 'type': 'tool_use'} done"
CallingTool ==
  Text(<<"Calling", " ", "tool", " ", "{", "'", "id", "'", ":", " ", "'", "x", "'", ",",
  " ", "'", "input", "'", ":", " ", "{", "}", ",", " ", "'", "name", "'", ":", " ", "'",
  "foo", "'", ",", " ", "'", "type", "'", ":", " ", "'", "tool_use", "'", "}", " ",
  "done">>)

\* The tool_use block whose str() is the dictionary text inside CallingTool.
ToolUseBlock ==
  Dict(<<KV(Str("id"), Str("x")), KV(Str("input"), Dict(<<>>)), KV(Str("name"), Str("foo")),
         KV(Str("type"), Str("tool_use"))>>)

TextBlock == Dict(<<KV(Str("text"), Str("hi")), KV(Str("type"), Str("text"))>>)

\* agent "assistant": assistant messages with and without tool calls and
\* content blocks, other tool results, and updates without a last message.
AssistantUpdates ==
  {NodeUpdate("agent", <<AIMessage(CallingTool, <<CallFoo>>)>>),
   NodeUpdate("agent", <<AIMessage(CallingTool, <<CallThink>>)>>),
   NodeUpdate("agent", <<AIMessage(CallingTool, <<>>)>>),
   NodeUpdate("agent", <<AIMessage(List(<<TextBlock, ToolUseBlock>>), <<CallFoo, CallThink>>)>>),
   NodeUpdate("agent", <<AIMessage(Str(""), <<CallObj>>)>>),
   NodeUpdate("agent", <<AIMessage(List(<<Dict(<<KV(Str("text"), None)>>)>>), <<>>)>>),
   NodeUpdate("agent", <<AIMessage(None, <<>>)>>),
   NodeUpdate("agent", <<Obj("AIMessage", <<KV(Str("content"), Str("go")),
                                            KV(Str("tool_calls"), PyInt(5))>>)>>),
   NodeUpdate("tools", <<AIMessage(Str("earlier"), <<>>), ToolMessage("search", Str("found"))>>),
   NodeUpdate("tools", <<Obj("ToolMessage", <<KV(Str("name"), Str("think_tool"))>>)>>),
   NodeUpdate("agent", <<>>),
   NodeUpdate("agent", <<Obj("RemoveMessage", <<KV(Str("id"), Str("m1"))>>)>>),
   Dict(<<KV(Str("agent"), Dict(<<KV(Str("messages"), AIMessage(Str("single"), <<>>))>>))>>),
   Dict(<<KV(Str("agent"), Dict(<<KV(Str("files"), Dict(<<>>))>>)), KV(Str("hook"), None)>>),
   Dict(<<KV(Str("agent"), Dict(<<KV(Str("messages"), List(<<AIMessage(Str("one"), <<>>)>>))>>)),
          KV(Str("tools"), Dict(<<KV(Str("messages"),
                                     List(<<ToolMessage("think_tool", Str("two"))>>))>>))>>),
   Tuple(<<Str("values"), Dict(<<>>)>>),
   NodeUpdate("agent", <<AIMessage(Text(<<" ">>), <<CallThink>>)>>),
   NodeUpdate("model", <<AIMessage(Str("text"), <<CallFoo, CallTodos, CallObj>>)>>),
   Plain}

\* An update of the nodes "agent" and "tools", the second with two messages.
TwoNodes ==
  Dict(<<KV(Str("agent"), Dict(<<KV(Str("messages"), List(<<AIMessage(Str("one"), <<CallFoo>>)>>))>>)),
         KV(Str("tools"), Dict(<<KV(Str("messages"),
                                    List(<<AIMessage(Str("skip"), <<>>),
                                           ToolMessage("think_tool", Str("two"))>>))>>))>>)

\* An update of four nodes of which only the last has a message.
FourNodes ==
  Dict(<<KV(Str("a"), Dict(<<KV(Str("messages"), List(<<>>))>>)),
         KV(Str("b"), Dict(<<KV(Str("files"), Dict(<<>>))>>)),
         KV(Str("c"), None),
         KV(Str("d"), Dict(<<KV(Str("messages"), List(<<AIMessage(Str("dee"), <<>>)>>))>>))>>)

\* agent "nodes": updates of several nodes, nodes with several messages, nodes
\* without messages, and updates that are no dict.
NodesUpdates ==
  {NodeUpdate("agent", <<AIMessage(Str("first"), <<CallFoo>>), ToolMessage("think_tool", Str("r")),
                         AIMessage(Str("last"), <<>>)>>),
   NodeUpdate("tools", <<ToolMessage("write_todos", List(<<Dict(<<KV(Str("content"), Str("a"))>>)>>)),
                         ToolMessage("search", Str("x"))>>),
   NodeUpdate("tools", <<AIMessage(List(<<Dict(<<KV(Str("text"), None)>>)>>), <<>>),
                         ToolMessage("think_tool", Str("kept"))>>),
   TwoNodes,
   FourNodes,
   Dict(<<KV(Str("first"), Dict(<<KV(Str("messages"),
                                     List(<<AIMessage(List(<<Dict(<<KV(Str("text"), None)>>)>>), <<>>)>>))>>)),
          KV(Str("second"), Dict(<<KV(Str("messages"), List(<<AIMessage(Str("late"), <<>>)>>))>>))>>),
   Dict(<<KV(Str("agent"), Dict(<<KV(Str("messages"), None)>>))>>),
   Dict(<<KV(Str("agent"), Dict(<<KV(Str("messages"), AIMessage(Str("single"), <<>>))>>))>>),
   Dict(<<KV(Str("agent"), List(<<AIMessage(Str("bare"), <<>>)>>))>>),
   Dict(<<>>),
   Tuple(<<Str("values"), NodeUpdate("agent", <<AIMessage(Str("inside"), <<>>)>>)>>),
   List(<<AIMessage(Str("listed"), <<>>)>>),
   None,
   Str("text"),
   Plain}

\* agent "tools": the results of tools other than think_tool and write_todos,
\* with the contents and fields that the other branches would surface.
ToolsUpdates ==
  {ToolUpdate("search", Str("found")),
   ToolUpdate("search", CallingTool),
   ToolUpdate("search", Dict(<<KV(Str("reflection"), Str("r")), KV(Str("todos"), List(<<Str("a")>>))>>)),
   ToolUpdate("read_todos", Text(<<"[", "{", "'", "content", "'", ":", " ", "'", "a", "'", "}", "]">>)),
   NodeUpdate("tools", <<Obj("ToolMessage", <<KV(Str("name"), Str("search")),
                                              KV(Str("content"), Str("found")),
                                              KV(Str("tool_calls"), List(<<CallFoo>>))>>)>>),
   NodeUpdate("tools", <<Obj("ToolMessage", <<KV(Str("content"), Str("unnamed"))>>)>>),
   NodeUpdate("tools", <<Obj("ToolMessage", <<KV(Str("name"), None),
                                              KV(Str("content"), Str("nameless"))>>)>>),
   NodeUpdate("tools", <<Obj("ToolMessage", <<KV(Str("name"), Str("search"))>>)>>),
   Plain}

(***************************************************************************)
(* The generators.  One call of stream or of resume_from_interrupt is      *)
(* followed from the call to the end of the generator; every step of its   *)
(* loop pulls one update from the agent's stream and yields its events.    *)
(***************************************************************************)
VARIABLES
  agent,       \* self.agent: "None", or the name of the loaded agent
  method,      \* the operation that ran last: "", "stream", "resume_from_interrupt",
               \* and for the loader "AgentWrapper", "get_agent", "reload_agent", "write_file"
  pc,          \* "idle" before the call, "loop" inside the for loop, "done" at the end
  events,      \* the events the generator has yielded, in order
  updates,     \* the updates the agent's stream has yielded, in order
  emitted,     \* emitted[k]: the events yielded by the loop body for updates[k]
  raised,      \* the agent's stream has raised
  propagated,  \* str(e) of the exception that left the generator, "" when none did
  calls,       \* how many times self.agent.stream was called
  environ,     \* os.environ['JUPYTER_AGENT_PATH'] as a text, <<>> when it is not set
  files,       \* files[p]: what the file of module p holds now
  sys_modules, \* sys.modules: the namespace of every module that is imported
  _agent_instance, \* the global _agent_instance: None, or the AgentWrapper
  constructed, \* how many times AgentWrapper was constructed
  returned,    \* what the calls of get_agent have returned, in order
  args,        \* the arguments of the call of stream or resume_from_interrupt
  passed       \* what self.agent.stream was called with

\* The state of the loader and of the singleton.
loading == <<environ, files, sys_modules, _agent_instance, constructed, returned>>

\* The state of the call that hands the input and the config to the agent.
calling == <<args, passed>>

vars ==
  <<agent, method, pc, events, updates, emitted, raised, propagated, calls, loading, calling>>

\* How many updates the agent's stream yields at most in one call.
MaxUpdates == 2

\* The modules that a file can define: my_agent.py, and the module that
\* JUPYTER_AGENT_PATH names.
ModulePaths == {"my_agent", "my_module"}

\* What the file of a module can hold: nothing (there is no file), text that
\* raises when it is executed, or assignments to some names.
Missing == [status |-> "missing", attrs |-> {}]

Broken == [status |-> "broken", attrs |-> {}]

Defines(names) == [status |-> "ok", attrs |-> names]

\* The file with the content c after gen writes.
File(c, gen) == [status |-> c.status, attrs |-> c.attrs, gen |-> gen]

\* sys.modules without any of the agent modules.
NoModules == [p \in {} |-> <<>>]

\* _agent_instance = None
NoInstance == [id |-> 0, agent |-> "None", agent_module_path |-> "", agent_variable_name |-> ""]

\* No call of stream or resume_from_interrupt has been made.
NoCall == [t |-> "none", v |-> 0]

\* The arguments of a call: stream(message, config, context, thread_id) and
\* resume_from_interrupt(decisions, config, thread_id).
Arguments(message, context, config, thread_id) ==
  [message |-> message, context |-> context, config |-> config, thread_id |-> thread_id,
   decisions |-> List(<<Dict(<<KV(Str("type"), Str("approve"))>>)>>)]

\* stream("hi") and resume_from_interrupt([{"type": "approve"}]): the defaults.
DefaultCall == Arguments(Str("hi"), None, None, None)

Agents == {"hitl", "malformed", "requests", "think", "todos", "assistant", "tools", "nodes"}

\* The updates that the stream of agent a can yield.
Updates(a) ==
  CASE a = "hitl" -> HitlUpdates
    [] a = "malformed" -> MalformedUpdates
    [] a = "requests" -> RequestsUpdates
    [] a = "think" -> ThinkUpdates
    [] a = "todos" -> TodosUpdates
    [] a = "assistant" -> AssistantUpdates
    [] a = "tools" -> ToolsUpdates
    [] a = "nodes" -> NodesUpdates
    [] a = "plain" -> {Plain}

\* str(e) of what the agent's stream can raise.
StreamErrors == {"boom"}

\* JUPYTER_AGENT_PATH: unset, or set.
EnvPaths == {"", "my_module:my_agent"}

\* After construction: the agent is loaded or the load has failed.
Init ==
  /\ agent \in {"None"} \cup Agents
  /\ method = ""
  /\ pc = "idle"
  /\ events = <<>>
  /\ updates = <<>>
  /\ emitted = <<>>
  /\ raised = FALSE
  /\ propagated = ""
  /\ calls = 0
  /\ environ = <<>>
  /\ files = [p \in ModulePaths |-> File(Missing, 0)]
  /\ sys_modules = NoModules
  /\ _agent_instance = NoInstance
  /\ constructed = 0
  /\ returned = <<>>
  /\ args = DefaultCall
  /\ passed = NoCall

(***************************************************************************)
(* The call: what stream and resume_from_interrupt hand to the agent's     *)
(* stream.  The texts of a message and of a context are sequences of       *)
(* lexemes too: a path separator "/", a line break, a final extension      *)
(* such as ".py", or a run of other characters.                            *)
(***************************************************************************)
\* '/' in focused or focused.endswith(('.ipynb', '.py', '.txt', '.md'))
focused_is_file(focused) ==
  \/ \E i \in DOMAIN focused.v : focused.v[i] = "/"
  \/ focused.v # <<>> /\ focused.v[Len(focused.v)] \in {".ipynb", ".py", ".txt", ".md"}

\* context_parts with a fault: the focus line is appended before the directory
\* line.
context_parts_focus_first(context) ==
  (IF Truthy(dict_get(context, "focused_widget", None))
   THEN LET focused == dict_get(context, "focused_widget", None) IN
        IF focused_is_file(focused)
        THEN <<Text(<<"Currently focused file: ">> \o py_str(focused).v)>>
        ELSE <<Text(<<"Currently focused: ">> \o py_str(focused).v)>>
   ELSE <<>>)
  \o (IF Truthy(dict_get(context, "current_directory", None))
      THEN <<Text(<<"Current directory: ">> \o py_str(dict_get(context, "current_directory", None)).v)>>
      ELSE <<>>)

\* context_parts: the lines for the fields of context that are there.
context_parts(context) ==
  (IF Truthy(dict_get(context, "current_directory", None))
   THEN <<Text(<<"Current directory: ">> \o py_str(dict_get(context, "current_directory", None)).v)>>
   ELSE <<>>)
  \o (IF Truthy(dict_get(context, "focused_widget", None))
      THEN LET focused == dict_get(context, "focused_widget", None) IN
           IF focused_is_file(focused)
           THEN <<Text(<<"Currently focused file: ">> \o py_str(focused).v)>>
           ELSE <<Text(<<"Currently focused: ">> \o py_str(focused).v)>>
      ELSE <<>>)

\* "\n".join(lines)
RECURSIVE join_lines(_, _)
join_lines(lines, i) ==
  IF i > Len(lines) THEN <<>>
  ELSE IF i = Len(lines) THEN lines[i].v
  ELSE lines[i].v \o <<"\n">> \o join_lines(lines, i + 1)

\* self._append_context_to_message(message, context)
_append_context_to_message(message, context) ==
  IF ~Truthy(context) THEN message
  ELSE IF context_parts(context) # <<>>
  THEN Text(message.v \o <<"\n", "\n">> \o join_lines(context_parts(context), 1))
  ELSE message

\* agent_input = {"messages": [{"role": "user", "content": message_with_context}]}
agent_input(message_with_context) ==
  Dict(<<KV(Str("messages"),
            List(<<Dict(<<KV(Str("role"), Str("user")),
                          KV(Str("content"), message_with_context)>>)>>))>>)

\* resume_input = Command(resume={"decisions": decisions})
resume_input(decisions) ==
  Obj("Command", <<KV(Str("resume"), Dict(<<KV(Str("decisions"), decisions)>>))>>)

\* [config, exc]: the config of the call, or the exception of its preparation.
Prepared(config) == [config |-> config, exc |-> ""]

\* stream_agent_config with a fault: 'configurable' is made anew.
stream_agent_config_anew(config, thread_id) ==
  LET agent_config == IF Truthy(config) THEN config ELSE Dict(<<>>) IN
  IF Truthy(thread_id)
  THEN Prepared(Dict(DictSet(agent_config.v, Str("configurable"),
                             Dict(<<KV(Str("thread_id"), thread_id)>>))))
  ELSE Prepared(agent_config)

\* agent_config of stream: config or {}, with configurable.thread_id set when
\* thread_id is truthy.
stream_agent_config(config, thread_id) ==
  LET agent_config == IF Truthy(config) THEN config ELSE Dict(<<>>)
      configurable == dict_get(agent_config, "configurable", Dict(<<>>))
  IN IF Truthy(thread_id)
     THEN IF configurable.t # "dict"
          THEN [config |-> agent_config,
                exc |-> "'" \o TypeName(configurable) \o "' object does not support item assignment"]
          ELSE Prepared(Dict(DictSet(agent_config.v, Str("configurable"),
                                     Dict(DictSet(configurable.v, Str("thread_id"), thread_id)))))
     ELSE Prepared(agent_config)

\* agent_config of resume_from_interrupt.
resume_agent_config(config, thread_id) ==
  LET agent_config == IF Truthy(config) THEN config ELSE Dict(<<>>)
      configurable == dict_get(agent_config, "configurable", Dict(<<>>))
  IN IF Truthy(thread_id)
     THEN IF configurable.t # "dict"
          THEN [config |-> agent_config,
                exc |-> "'" \o TypeName(configurable) \o "' object does not support item assignment"]
          ELSE Prepared(Dict(DictSet(agent_config.v, Str("configurable"),
                                     Dict(DictSet(configurable.v, Str("thread_id"), thread_id)))))
     ELSE Prepared(agent_config)

\* self.agent.stream(input, config=agent_config, stream_mode="updates")
Call(input, agent_config) == [input |-> input, config |-> agent_config, stream_mode |-> "updates"]

\* stream_except with a fault: the exception is not caught.
stream_except_uncaught(r) == r

\* except Exception as e: yield {"error": ..., "status": "error"} around a
\* generator body that did r.
stream_except(r) ==
  IF r.exc # ""
  THEN Yields(Append(r.ev, [error |-> "Error streaming from agent: " \o r.exc, status |-> "error"]))
  ELSE r

\* The call of stream, up to the for loop.
stream ==
  /\ pc = "idle"
  /\ method' = "stream"
  /\ IF agent = "None"
     THEN /\ \E env_path \in EnvPaths :
               events' = <<[error |-> "Agent not loaded. " \o
                                      (IF env_path # ""
                                       THEN "Check JUPYTER_AGENT_PATH: " \o env_path
                                       ELSE "Please create my_agent.py with your LangGraph agent or set JUPYTER_AGENT_PATH."),
                            status |-> "error"]>>
          /\ pc' = "done"
          /\ UNCHANGED calls
          /\ UNCHANGED passed
     ELSE LET prepared == stream_agent_config(args.config, args.thread_id) IN
          IF prepared.exc # ""
          THEN /\ events' = stream_except(Raises(prepared.exc)).ev
               /\ pc' = "done"
               /\ UNCHANGED <<calls, passed>>
          ELSE /\ events' = <<>>
               /\ pc' = "loop"
               /\ calls' = calls + 1
               /\ passed' = Call(agent_input(_append_context_to_message(args.message, args.context)),
                                 prepared.config)
  /\ UNCHANGED <<agent, updates, emitted, raised, propagated>>
  /\ UNCHANGED <<loading, args>>

\* One turn of the for loop: the agent's stream yields an update.
stream_for ==
  /\ pc = "loop"
  /\ method = "stream"
  /\ Len(updates) < MaxUpdates
  /\ \E update \in Updates(agent) :
       LET r == stream_update(update) IN
       /\ updates' = Append(updates, update)
       /\ emitted' = Append(emitted, r.ev)
       /\ events' = events \o stream_except(r).ev
       /\ propagated' = stream_except(r).exc
       /\ pc' = IF r.exc # "" THEN "done" ELSE "loop"
  /\ UNCHANGED <<agent, method, raised, calls>>
  /\ UNCHANGED <<loading, calling>>

\* The agent's stream is exhausted: the statement after the loop.
stream_complete ==
  /\ pc = "loop"
  /\ method = "stream"
  /\ events' = events \o stream_except(Yields(<<[status |-> "complete"]>>)).ev
  /\ pc' = "done"
  /\ UNCHANGED <<agent, method, updates, emitted, raised, propagated, calls>>
  /\ UNCHANGED <<loading, calling>>

\* The agent's stream raises instead of yielding.
stream_raise ==
  /\ pc = "loop"
  /\ method = "stream"
  /\ \E msg \in StreamErrors :
       /\ events' = events \o stream_except(Raises(msg)).ev
       /\ propagated' = stream_except(Raises(msg)).exc
  /\ raised' = TRUE
  /\ pc' = "done"
  /\ UNCHANGED <<agent, method, updates, emitted, calls>>
  /\ UNCHANGED <<loading, calling>>

\* except Exception as e: yield {"error": ..., "status": "error"} around the
\* body of resume_from_interrupt that did r.
resume_except(r) ==
  IF r.exc # ""
  THEN Yields(Append(r.ev, [error |-> "Error resuming from interrupt: " \o r.exc, status |-> "error"]))
  ELSE r

\* resume_from_interrupt with a fault: no return after the yield of the guard,
\* so that self.agent.stream is looked up on None inside the try.
resume_from_interrupt_no_return ==
  /\ pc = "idle"
  /\ method' = "resume_from_interrupt"
  /\ IF agent = "None"
     THEN /\ events' = <<[error |-> "Agent not loaded", status |-> "error"]>>
                       \o resume_except(Raises(NoAttribute(None, "stream"))).ev
          /\ pc' = "done"
          /\ UNCHANGED calls
          /\ UNCHANGED passed
     ELSE LET prepared == resume_agent_config(args.config, args.thread_id) IN
          IF prepared.exc # ""
          THEN /\ events' = resume_except(Raises(prepared.exc)).ev
               /\ pc' = "done"
               /\ UNCHANGED <<calls, passed>>
          ELSE /\ events' = <<>>
               /\ pc' = "loop"
               /\ calls' = calls + 1
               /\ passed' = Call(resume_input(args.decisions),
                                 prepared.config)
  /\ UNCHANGED <<agent, updates, emitted, raised, propagated>>
  /\ UNCHANGED <<loading, args>>

\* The call of resume_from_interrupt, up to the for loop.
resume_from_interrupt ==
  /\ pc = "idle"
  /\ method' = "resume_from_interrupt"
  /\ IF agent = "None"
     THEN /\ events' = <<[error |-> "Agent not loaded", status |-> "error"]>>
          /\ pc' = "done"
          /\ UNCHANGED calls
          /\ UNCHANGED passed
     ELSE LET prepared == resume_agent_config(args.config, args.thread_id) IN
          IF prepared.exc # ""
          THEN /\ events' = resume_except(Raises(prepared.exc)).ev
               /\ pc' = "done"
               /\ UNCHANGED <<calls, passed>>
          ELSE /\ events' = <<>>
               /\ pc' = "loop"
               /\ calls' = calls + 1
               /\ passed' = Call(resume_input(args.decisions),
                                 prepared.config)
  /\ UNCHANGED <<agent, updates, emitted, raised, propagated>>
  /\ UNCHANGED <<loading, args>>

\* One turn of the for loop of resume_from_interrupt.
resume_for ==
  /\ pc = "loop"
  /\ method = "resume_from_interrupt"
  /\ Len(updates) < MaxUpdates
  /\ \E update \in Updates(agent) :
       LET r == resume_update(update) IN
       /\ updates' = Append(updates, update)
       /\ emitted' = Append(emitted, r.ev)
       /\ events' = events \o resume_except(r).ev
       /\ propagated' = resume_except(r).exc
       /\ pc' = IF r.exc # "" THEN "done" ELSE "loop"
  /\ UNCHANGED <<agent, method, raised, calls>>
  /\ UNCHANGED <<loading, calling>>

\* The agent's stream is exhausted: the statement after the loop.
resume_complete ==
  /\ pc = "loop"
  /\ method = "resume_from_interrupt"
  /\ events' = events \o resume_except(Yields(<<[status |-> "complete"]>>)).ev
  /\ pc' = "done"
  /\ UNCHANGED <<agent, method, updates, emitted, raised, propagated, calls>>
  /\ UNCHANGED <<loading, calling>>

\* The agent's stream raises instead of yielding.
resume_raise ==
  /\ pc = "loop"
  /\ method = "resume_from_interrupt"
  /\ \E msg \in StreamErrors :
       /\ events' = events \o resume_except(Raises(msg)).ev
       /\ propagated' = resume_except(Raises(msg)).exc
  /\ raised' = TRUE
  /\ pc' = "done"
  /\ UNCHANGED <<agent, method, updates, emitted, calls>>
  /\ UNCHANGED <<loading, calling>>

Next ==
  \/ stream
  \/ stream_for
  \/ stream_complete
  \/ stream_raise
  \/ resume_from_interrupt
  \/ resume_for
  \/ resume_complete
  \/ resume_raise

Spec == Init /\ [][Next]_vars


(***************************************************************************)
(* The calls: stream and resume_from_interrupt with the arguments a caller *)
(* can give, on an agent whose stream yields the one update Plain.         *)
(***************************************************************************)
Messages == {Str("hi"), Str(""), Text(<<"first", "\n", "second">>)}

\* {'current_directory': '/a', 'focused_widget': 'nb.ipynb'}
ContextExample ==
  Dict(<<KV(Str("current_directory"), Text(<<"/", "a">>)),
         KV(Str("focused_widget"), Text(<<"nb", ".ipynb">>))>>)

Focused(widget) == Dict(<<KV(Str("focused_widget"), Text(widget))>>)

Contexts ==
  {None, Dict(<<>>), ContextExample,
   Dict(<<KV(Str("current_directory"), Text(<<"/", "a">>))>>),
   Dict(<<KV(Str("focused_widget"), Str("launcher")),
          KV(Str("current_directory"), Text(<<"/", "a">>))>>),
   Dict(<<KV(Str("current_directory"), Str("")), KV(Str("focused_widget"), Str(""))>>),
   Dict(<<KV(Str("current_directory"), None), KV(Str("focused_widget"), None)>>),
   Dict(<<KV(Str("current_directory"), Text(<<"/", "a">>)), KV(Str("focused_widget"), Str(""))>>),
   Dict(<<KV(Str("selection"), Str("x"))>>),
   Focused(<<"launcher">>), Focused(<<"notebooks", "/", "a">>), Focused(<<"nb", ".ipynb">>),
   Focused(<<"x", ".py">>), Focused(<<"a", ".txt">>), Focused(<<"notes", ".md">>),
   Focused(<<"data", ".csv">>), Focused(<<"x", ".pyc">>), Focused(<<"a.py", ".bak">>),
   Focused(<<".md">>), Focused(<<"/">>)}

Configs ==
  {None, Dict(<<>>),
   Dict(<<KV(Str("recursion_limit"), PyInt(5))>>),
   Dict(<<KV(Str("configurable"), Dict(<<>>))>>),
   Dict(<<KV(Str("configurable"), Dict(<<KV(Str("user"), Str("u"))>>))>>),
   Dict(<<KV(Str("tags"), List(<<Str("a")>>)),
          KV(Str("configurable"), Dict(<<KV(Str("thread_id"), Str("old")), KV(Str("user"), Str("u"))>>)),
          KV(Str("recursion_limit"), PyInt(5))>>)}

ThreadIds == {None, Str(""), Str("t1")}

CallArguments ==
  {Arguments(message, context, None, None) : message \in Messages, context \in Contexts}
  \cup {Arguments(Str("hi"), ContextExample, config, thread_id) :
          config \in Configs, thread_id \in ThreadIds}

CallInit ==
  /\ agent = "plain"
  /\ method = ""
  /\ pc = "idle"
  /\ events = <<>>
  /\ updates = <<>>
  /\ emitted = <<>>
  /\ raised = FALSE
  /\ propagated = ""
  /\ calls = 0
  /\ environ = <<>>
  /\ files = [p \in ModulePaths |-> File(Missing, 0)]
  /\ sys_modules = NoModules
  /\ _agent_instance = NoInstance
  /\ constructed = 0
  /\ returned = <<>>
  /\ args \in CallArguments
  /\ passed = NoCall

CallSpec == CallInit /\ [][Next]_vars

(***************************************************************************)
(* The loader: AgentWrapper.__init__, _load_agent, reload_agent, and the   *)
(* module-level get_agent.  A module is its namespace, a function from the *)
(* names it defines to their values; the value a file of generation gen    *)
(* assigns to name a of module p is the string p.a@gen.                    *)
(***************************************************************************)
\* How many times get_agent is called at most.
MaxCalls == 3

\* How many times the file of the agent module is written at most.
MaxEdits == 2

\* The values of JUPYTER_AGENT_PATH.
Environs ==
  {<<>>,
   <<"my_module", ":", "my_agent">>,
   <<"my_module">>,
   <<"my_module", ":", "agent", ":", "x">>,
   <<":", "agent">>,
   <<"my_module", ":">>}

Contents ==
  {Missing, Broken, Defines({}), Defines({"agent"}), Defines({"graph"}), Defines({"my_agent"}),
   Defines({"agent", "graph"})}

\* ''.join(s)
RECURSIVE Joined(_)
Joined(s) == IF s = <<>> THEN "" ELSE Head(s) \o Joined(Tail(s))

\* env_path.split(':', 1)
parts(env_path) ==
  LET colons == {i \in DOMAIN env_path : env_path[i] = ":"} IN
  IF colons = {} THEN <<Joined(env_path)>>
  ELSE LET i == CHOOSE c \in colons : \A d \in colons : c <= d
       IN <<Joined(SubSeq(env_path, 1, i - 1)), Joined(SubSeq(env_path, i + 1, Len(env_path)))>>

\* self.agent_module_path as __init__ sets it, given its parameter.
agent_module_path(default) ==
  IF environ # <<>> /\ Len(parts(environ)) = 2 THEN parts(environ)[1] ELSE default

\* self.agent_variable_name as __init__ sets it. ("" stands for None too: the
\* code only tests whether the name is truthy.)
agent_variable_name(default) ==
  IF environ # <<>> /\ Len(parts(environ)) = 2 THEN parts(environ)[2] ELSE default

\* The value that the file of module p assigns to name a.
Value(p, a) == p \o "." \o a \o "@" \o ToString(files[p].gen)

\* The namespace of module p after its file was executed in namespace ns: the
\* names the file assigns are bound anew, the other names of ns stay.
exec_module(p, ns) ==
  [a \in DOMAIN ns \cup files[p].attrs |-> IF a \in files[p].attrs THEN Value(p, a) ELSE ns[a]]

\* importlib.import_module(name) with sys.modules = sm.
import_module(name, sm) ==
  IF name = "" THEN [exc |-> "ValueError", module |-> <<>>, sys_modules |-> sm]
  ELSE IF name \in DOMAIN sm THEN [exc |-> "", module |-> sm[name], sys_modules |-> sm]
  ELSE IF name \notin ModulePaths \/ files[name].status = "missing"
  THEN [exc |-> "ModuleNotFoundError", module |-> <<>>, sys_modules |-> sm]
  ELSE IF files[name].status = "broken"
  THEN [exc |-> "SyntaxError", module |-> <<>>, sys_modules |-> sm]
  ELSE [exc |-> "", module |-> exec_module(name, <<>>),
        sys_modules |-> (name :> exec_module(name, <<>>)) @@ sm]

\* importlib.reload(sys.modules[name]) with sys.modules = sm.
importlib_reload(name, sm) ==
  IF files[name].status = "missing" THEN [exc |-> "ModuleNotFoundError", sys_modules |-> sm]
  ELSE IF files[name].status = "broken" THEN [exc |-> "SyntaxError", sys_modules |-> sm]
  ELSE [exc |-> "", sys_modules |-> [sm EXCEPT ![name] = exec_module(name, sm[name])]]

\* self._load_agent() with sys.modules = sm: self and sys.modules afterwards.
\* Both except clauses end with self.agent = None.
_load_agent(self, sm) ==
  LET r == import_module(self.agent_module_path, sm)
      module == r.module
      name == IF self.agent_variable_name # "" THEN self.agent_variable_name
              ELSE IF "agent" \in DOMAIN module THEN "agent"
              ELSE "graph"
  IN [self |-> [self EXCEPT !.agent = IF r.exc = "" /\ name \in DOMAIN module THEN module[name]
                                      ELSE "None"],
      sys_modules |-> r.sys_modules]

\* AgentWrapper(agent_module_path, agent_variable_name): the id-th instance.
AgentWrapper(module_path, variable_name, id, sm) ==
  _load_agent([id |-> id, agent |-> "None",
               agent_module_path |-> agent_module_path(module_path),
               agent_variable_name |-> agent_variable_name(variable_name)], sm)

\* get_agent with a fault: the instance is constructed at every call.
get_agent_eager ==
  /\ Len(returned) < MaxCalls
  /\ LET r == AgentWrapper("my_agent", "", constructed + 1, sys_modules) IN
     /\ _agent_instance' = r.self
     /\ sys_modules' = r.sys_modules
     /\ constructed' = constructed + 1
     /\ method' = "AgentWrapper"
  /\ returned' = Append(returned, _agent_instance'.id)
  /\ propagated' = ""
  /\ UNCHANGED <<agent, pc, events, updates, emitted, raised, calls, environ, files, calling>>

\* get_agent(): a plain function without a point of suspension, so a call runs
\* from its test to its return before the next call starts.
get_agent ==
  /\ Len(returned) < MaxCalls
  /\ IF _agent_instance = NoInstance
     THEN LET r == AgentWrapper("my_agent", "", constructed + 1, sys_modules) IN
          /\ _agent_instance' = r.self
          /\ sys_modules' = r.sys_modules
          /\ constructed' = constructed + 1
          /\ method' = "AgentWrapper"
     ELSE /\ UNCHANGED <<_agent_instance, sys_modules, constructed>>
          /\ method' = "get_agent"
  /\ returned' = Append(returned, _agent_instance'.id)
  /\ propagated' = ""
  /\ UNCHANGED <<agent, pc, events, updates, emitted, raised, calls, environ, files, calling>>

\* get_agent().reload_agent(): importlib.reload is called outside of any try.
reload_agent ==
  /\ _agent_instance # NoInstance
  /\ method' = "reload_agent"
  /\ LET self == _agent_instance
         name == self.agent_module_path
         reloaded == IF name \in DOMAIN sys_modules THEN importlib_reload(name, sys_modules)
                     ELSE [exc |-> "", sys_modules |-> sys_modules]
         r == _load_agent(self, reloaded.sys_modules)
     IN IF reloaded.exc # ""
        THEN /\ propagated' = reloaded.exc
             /\ UNCHANGED <<_agent_instance, sys_modules>>
        ELSE /\ propagated' = ""
             /\ _agent_instance' = r.self
             /\ sys_modules' = r.sys_modules
  /\ UNCHANGED <<agent, pc, events, updates, emitted, raised, calls, environ, files, constructed,
                 returned, calling>>

\* The file of the agent module is written, or removed, between two calls.
write_file ==
  /\ agent_module_path("my_agent") \in ModulePaths
  /\ files[agent_module_path("my_agent")].gen < MaxEdits
  /\ \E c \in Contents :
       /\ c # [status |-> files[agent_module_path("my_agent")].status,
               attrs |-> files[agent_module_path("my_agent")].attrs]
       /\ files' = [files EXCEPT ![agent_module_path("my_agent")] = File(c, @.gen + 1)]
  /\ method' = "write_file"
  /\ UNCHANGED <<agent, pc, events, updates, emitted, raised, propagated, calls, environ,
                 sys_modules, _agent_instance, constructed, returned, calling>>

\* The process starts: no agent module is imported, there is no instance.
LoadInit ==
  /\ agent = "None"
  /\ method = ""
  /\ pc = "idle"
  /\ events = <<>>
  /\ updates = <<>>
  /\ emitted = <<>>
  /\ raised = FALSE
  /\ propagated = ""
  /\ calls = 0
  /\ environ \in Environs
  /\ \E c \in Contents :
       files = [p \in ModulePaths |->
                  IF p = agent_module_path("my_agent") THEN File(c, 0) ELSE File(Missing, 0)]
  /\ sys_modules = NoModules
  /\ _agent_instance = NoInstance
  /\ constructed = 0
  /\ returned = <<>>
  /\ args = DefaultCall
  /\ passed = NoCall

LoadNext ==
  \/ get_agent
  \/ reload_agent
  \/ write_file

LoadSpec == LoadInit /\ [][LoadNext]_vars

(***************************************************************************)
(* Properties of the event sequences                                       *)
(***************************************************************************)
\* How many events of evs have status st.
CountStatus(evs, st) == Cardinality({i \in DOMAIN evs : evs[i].status = st})

\* The concatenation of a sequence of event sequences.
RECURSIVE Flat(_)
Flat(ss) == IF ss = <<>> THEN <<>> ELSE Head(ss) \o Flat(Tail(ss))

\* The generator has ended because the loop body raised on the last update
\* pulled (and not because the agent's stream raised or was exhausted).
BodyRaised ==
  /\ pc = "done"
  /\ agent # "None"
  /\ ~raised
  /\ events # <<>>
  /\ events[Len(events)].status = "error"

IsInterrupt(update) == update.t = "dict" /\ HasKey(update, Str("__interrupt__"))

\* The update is of node "tools".
FromTools(update) == update.t = "dict" /\ HasKey(update, Str("tools"))

\* The interrupt event that carries no action request and no review config.
EmptyInterrupt ==
  [interrupt |-> [action_requests |-> <<>>, review_configs |-> <<>>], status |-> "interrupt"]

\* C1: when the agent's stream ends without raising, the events hold exactly
\* one 'complete' event, it is the last event, and there is no 'error' event,
\* whatever the updates were.
C1_CompleteLast ==
  (pc = "done" /\ agent # "None" /\ ~raised) =>
    /\ CountStatus(events, "complete") = 1
    /\ events[Len(events)].status = "complete"
    /\ CountStatus(events, "error") = 0

\* C2: when the agent's stream raises after k updates, the events are those of
\* the k updates and then exactly one 'error' event with a diagnostic string;
\* there is no 'complete' event, nothing follows, no exception propagates.
C2_RaiseEndsWithOneError ==
  (pc = "done" /\ raised) =>
    /\ Len(emitted) = Len(updates)
    /\ Len(events) = Len(Flat(emitted)) + 1
    /\ SubSeq(events, 1, Len(events) - 1) = Flat(emitted)
    /\ DOMAIN events[Len(events)] = {"error", "status"}
    /\ events[Len(events)].status = "error"
    /\ events[Len(events)].error # ""
    /\ CountStatus(events, "error") = 1
    /\ CountStatus(events, "complete") = 0
    /\ propagated = ""
    /\ ~ENABLED Next

\* The agent's stream has raised after two updates that yielded events.
C2_Witness ==
  /\ pc = "done"
  /\ raised
  /\ Len(updates) = 2
  /\ Len(events) >= 3

\* C3: with self.agent None, stream and resume_from_interrupt yield exactly one
\* event, an 'error' event; the agent's stream is not called, nothing raises.
C3_UnsetHandle ==
  (agent = "None" /\ method # "") =>
    /\ pc = "done"
    /\ Len(events) = 1
    /\ events[1].status = "error"
    /\ DOMAIN events[1] = {"error", "status"}
    /\ calls = 0
    /\ updates = <<>>
    /\ propagated = ""
    /\ ~ENABLED Next

\* resume_from_interrupt was called with no agent loaded.
C3_Witness ==
  /\ agent = "None"
  /\ method = "resume_from_interrupt"
  /\ Len(events) = 1

\* C4: every update with the '__interrupt__' key yields exactly one 'interrupt'
\* event and nothing else, and does not end the generator: the loop goes on to
\* the next update and to the 'complete' event.
C4_OneInterruptEventEach ==
  \A k \in DOMAIN updates :
    IsInterrupt(updates[k]) =>
      /\ Len(emitted[k]) = 1
      /\ emitted[k][1].status = "interrupt"
      /\ ~(k = Len(updates) /\ BodyRaised)

\* C5: two interrupts that carry the same action_requests and review_configs,
\* each in one of the shapes 1-tuple of an object with a value mapping, 2-tuple,
\* object with attributes, yield the same single 'interrupt' event.
C5_ShapeInvariant ==
  \A i \in DOMAIN updates : IsInterrupt(updates[i]) => \A d \in ShapeData : \A sh1 \in MainShapes :
    updates[i] = Interrupt(Shaped(sh1, d[1], d[2]))
    => /\ Len(emitted[i]) = 1
       /\ emitted[i][1].status = "interrupt"
       /\ Len(emitted[i][1].interrupt.action_requests) = Len(d[1].v)
       /\ Len(emitted[i][1].interrupt.review_configs) = Len(d[2].v)
       /\ \A j \in DOMAIN updates : \A sh2 \in MainShapes :
            updates[j] = Interrupt(Shaped(sh2, d[1], d[2])) => emitted[i] = emitted[j]

\* The same two action requests and review config came wrapped and as a pair.
C5_Witness ==
  /\ Len(updates) = 2
  /\ updates[1] = Interrupt(Wrapped(Requests2, Configs1))
  /\ updates[2] = Interrupt(Pair(Requests2, Configs1))
  /\ Len(emitted[2]) = 1
  /\ Len(emitted[2][1].interrupt.action_requests) = 2

\* C6: an interrupt value that is a plain mapping with the keys action_requests
\* and review_configs yields the 'interrupt' event that an object with the same
\* two attributes yields.
C6_MappingAsObject ==
  \A i, j \in DOMAIN updates : \A d \in ShapeData :
    (/\ updates[i] = Interrupt(Mapping(d[1], d[2]))
     /\ updates[j] = Interrupt(Object(d[1], d[2])))
    => emitted[i] = emitted[j]

\* The interrupt values of a shape the dispatch does not know.
UnknownShapes ==
  {Tuple(<<>>), Tuple(<<Requests2, Configs1, Empty>>), Obj("Other", <<>>),
   Tuple(<<Obj("Interrupt", <<KV(Str("value"), Str("approve?"))>>)>>)}

\* What action_requests and review_configs are in the interrupts of the agents.
RawFields ==
  {None, PyInt(5), Text(<<"a", "b">>), ActionT, Requests2, Configs1, Empty, List(<<PyInt(5), None>>)}

\* C7: an interrupt of an unknown shape, or of a known shape whose
\* action_requests or review_configs is missing, None or no list, yields one
\* 'interrupt' event in which the list that could not be read is empty, and
\* does not end the generator with an 'error' event.
C7_MalformedDegrades ==
  \A k \in DOMAIN updates :
    /\ (IsInterrupt(updates[k]) /\ dict_get(updates[k], "__interrupt__", None) \in UnknownShapes)
       => emitted[k] = <<EmptyInterrupt>>
    /\ \A sh \in MainShapes : \A ar, rc \in RawFields :
         (updates[k] = Interrupt(Shaped(sh, ar, rc)) /\ (ar.t # "list" \/ rc.t # "list"))
         => /\ Len(emitted[k]) = 1
            /\ emitted[k][1].status = "interrupt"
            /\ ar.t # "list" => emitted[k][1].interrupt.action_requests = <<>>
            /\ rc.t # "list" => emitted[k][1].interrupt.review_configs = <<>>
            /\ ~(k = Len(updates) /\ BodyRaised)

\* The entries of a raw action request or review config x under `name`, x a
\* dict or an object: empty when x has no such field.
RawField(x, name) ==
  IF x.t \in BuiltinTypes \ {"dict"} THEN <<>> ELSE SelectSeq(x.v, LAMBDA e : e.k = Str(name))

\* C8, for one interrupt: the normalized action requests follow the raw ones in
\* length and order, each has the keys tool, tool_call_id, args, description,
\* tool is the raw 'tool' and the raw 'name' only when 'tool' is absent or
\* empty, tool_call_id is the raw one when present and call_<i> otherwise;
\* each review config has the one key allowed_decisions.
NormalizedAs(data, raw_requests, raw_configs) ==
  /\ Len(data.action_requests) = Len(raw_requests)
  /\ \A i \in DOMAIN raw_requests :
       LET tool == RawField(raw_requests[i], "tool")
           name == RawField(raw_requests[i], "name")
           id == RawField(raw_requests[i], "tool_call_id")
       IN /\ DOMAIN data.action_requests[i] = {"tool", "tool_call_id", "args", "description"}
          /\ data.action_requests[i].tool =
               (IF tool # <<>> /\ Truthy(tool[1].v) THEN tool[1].v
                ELSE IF name # <<>> THEN name[1].v
                ELSE None)
          /\ data.action_requests[i].tool_call_id =
               (IF id # <<>> THEN id[1].v ELSE Str("call_" \o ToString(i - 1)))
  /\ Len(data.review_configs) = Len(raw_configs)
  /\ \A i \in DOMAIN raw_configs : DOMAIN data.review_configs[i] = {"allowed_decisions"}

\* C8: every 'interrupt' event carries its raw action requests and review
\* configs normalized as NormalizedAs says.
C8_ActionRequestsNormalized ==
  \A k \in DOMAIN updates : IsInterrupt(updates[k]) => \A sh \in MainShapes :
    \A d \in ShapeData \cup {<<List(ar), List(rc)>> : ar \in RequestLists, rc \in ConfigLists} :
      updates[k] = Interrupt(Shaped(sh, d[1], d[2]))
      => /\ Len(emitted[k]) = 1
         /\ DOMAIN emitted[k][1] = {"interrupt", "status"}
         /\ DOMAIN emitted[k][1].interrupt = {"action_requests", "review_configs"}
         /\ NormalizedAs(emitted[k][1].interrupt, d[1].v, d[2].v)

\* An interrupt whose third action request has no tool_call_id, whose first has
\* an empty 'tool' and whose second is an object with 'tool' None.
C8_Witness ==
  \E k \in DOMAIN updates :
    /\ updates[k] = Interrupt(Pair(List(<<ActionEmptyTool, ActionObjZ, ActionT>>),
                                   List(<<ConfigObj, ConfigBare, ConfigEmpty>>)))
    /\ Len(emitted[k]) = 1
    /\ emitted[k][1].interrupt.action_requests[1].tool = Str("n")
    /\ emitted[k][1].interrupt.action_requests[2].tool = Str("z")
    /\ emitted[k][1].interrupt.action_requests[3].tool_call_id = Str("call_2")

\* What a think_tool result with content c yields when its reflection is r.
ChunkOf(r) == IF Truthy(r) THEN <<[chunk |-> r, status |-> "streaming"]>> ELSE <<>>

\* C9 as stated: the reflection is the 'reflection' field of the JSON-parsed or
\* mapping content, the raw string when the string is not parseable as JSON;
\* one 'chunk' event carries it when it is not empty, and there is no event
\* when it is missing or empty.
C9_ReflectionChunk ==
  \A k \in DOMAIN updates : FromTools(updates[k]) => \A c \in ThinkContents :
    updates[k] = ToolUpdate("think_tool", c) =>
      emitted[k] =
        ChunkOf(CASE c.t = "str" /\ ~json_loads(c).ok -> c
                  [] c.t = "str" /\ json_loads(c).ok /\ json_loads(c).v.t = "dict" ->
                       dict_get(json_loads(c).v, "reflection", None)
                  [] c.t = "dict" -> dict_get(c, "reflection", None)
                  [] OTHER -> None)

\* C9, amended: the raw string is the reflection also when the string parses
\* as JSON to a value that is no object (a number, an array, a string, null).
C9_ReflectionChunkOrRaw ==
  \A k \in DOMAIN updates : FromTools(updates[k]) => \A c \in ThinkContents :
    updates[k] = ToolUpdate("think_tool", c) =>
      emitted[k] =
        ChunkOf(CASE c.t = "str" /\ ~json_loads(c).ok -> c
                  [] c.t = "str" /\ json_loads(c).ok /\ json_loads(c).v.t = "dict" ->
                       dict_get(json_loads(c).v, "reflection", None)
                  [] c.t = "str" /\ json_loads(c).ok /\ json_loads(c).v.t # "dict" -> c
                  [] c.t = "dict" -> dict_get(c, "reflection", None)
                  [] OTHER -> None)

\* A think_tool result whose content '5' is JSON but no object came as a chunk.
C9_Witness ==
  \E k \in DOMAIN updates :
    /\ updates[k] = ToolUpdate("think_tool", Str("5"))
    /\ emitted[k] = <<[chunk |-> Str("5"), status |-> "streaming"]>>

\* "Updated todo list to [{'content': 'a', 'status': 'pending'}]"
TodosExample ==
  Text(<<"Updated", " ", "todo", " ", "list", " ", "to", " ", "[", "{", "'", "content",
  "'", ":", " ", "'", "a", "'", ",", " ", "'", "status", "'", ":", " ", "'", "pending",
  "'", "}", "]">>)

\* The write_todos contents of which no attempt gives a non-empty list: no
\* array and no JSON, an array that does not parse, an empty list, todos that
\* are no list, no todos.
TodosUnparsed ==
  {Text(<<"no", " ", "array", " ", "here">>), Text(<<"[", "oops", "]">>),
   Text(<<"Updated", " ", "todo", " ", "list", " ", "to", " ", "[", "]">>),
   Text(<<"{", "\"", "other", "\"", ":", " ", "1", "}">>),
   Text(<<"{", "\"", "todos", "\"", ":", " ", "\"", "none", "\"", "}">>),
   Text(<<"{", "\"", "todos", "\"", ":", " ", "\"", "5", "\"", "}">>),
   Dict(<<KV(Str("todos"), Str("bad"))>>), List(<<>>), None, Str("5")}

\* C10: a write_todos result yields nothing or one 'todo_list' event, and an
\* event only with the non-empty list its content parses to (the example gives
\* the list of the one todo 'a', 'pending'); a content that does not parse to a
\* non-empty list yields no event, and no 'error' event ends the generator.
C10_TodoList ==
  \A k \in DOMAIN updates : FromTools(updates[k]) => \A c \in TodosContents :
    updates[k] = ToolUpdate("write_todos", c) =>
      /\ \/ emitted[k] = <<>>
         \/ /\ Len(emitted[k]) = 1
            /\ DOMAIN emitted[k][1] = {"todo_list", "status"}
            /\ emitted[k][1].status = "streaming"
            /\ emitted[k][1].todo_list.t = "list"
            /\ Len(emitted[k][1].todo_list.v) > 0
            /\ \/ emitted[k][1].todo_list = c
               \/ c.t = "dict" /\ emitted[k][1].todo_list = dict_get(c, "todos", None)
               \/ c.t = "dict" /\ emitted[k][1].todo_list = json_loads(dict_get(c, "todos", None)).v
               \/ c.t = "str" /\ emitted[k][1].todo_list = json_loads(c).v
               \/ c.t = "str" /\ json_loads(c).v.t = "dict"
                  /\ emitted[k][1].todo_list = dict_get(json_loads(c).v, "todos", None)
               \/ c.t = "str" /\ re_search_array(c).ok
                  /\ emitted[k][1].todo_list \in {ast_literal_eval(re_search_array(c).v).v,
                                                  json_loads(re_search_array(c).v).v}
      /\ c = TodosExample =>
           emitted[k] = <<[todo_list |-> List(<<Dict(<<KV(Str("content"), Str("a")),
                                                         KV(Str("status"), Str("pending"))>>)>>),
                           status |-> "streaming"]>>
      /\ c \in TodosUnparsed => emitted[k] = <<>>
      /\ ~(k = Len(updates) /\ BodyRaised)

\* The example content came and its todo list was yielded, and then a content
\* without todos came and the loop went on.
C10_Witness ==
  /\ Len(updates) = 2
  /\ updates[1] = ToolUpdate("write_todos", TodosExample)
  /\ Len(emitted[1]) = 1
  /\ updates[2] = ToolUpdate("write_todos", Text(<<"[", "oops", "]">>))
  /\ emitted[2] = <<>>
  /\ pc = "loop"

\* Node n of a regular update has a last message: its state is a dict whose
\* 'messages' is not empty.
HasLastMessage(update, n) ==
  /\ update.t = "dict"
  /\ ~IsInterrupt(update)
  /\ n \in DOMAIN update.v
  /\ update.v[n].v.t = "dict"
  /\ HasKey(update.v[n].v, Str("messages"))
  /\ Truthy(dict_get(update.v[n].v, "messages", None))

\* That last message: the last element of a list, or the value that stands in
\* place of the list.
LastMessage(update, n) ==
  LET messages == dict_get(update.v[n].v, "messages", None)
  IN IF messages.t = "list" THEN messages.v[Len(messages.v)] ELSE messages

\* The last message is the result of a tool other than think_tool, write_todos.
OtherToolResult(message) ==
  /\ message.t = "ToolMessage"
  /\ \/ RawField(message, "name") = <<>>
     \/ RawField(message, "name")[1].v \notin {Str("think_tool"), Str("write_todos")}

\* C11: a ToolMessage named neither think_tool nor write_todos, as the last
\* message of a node update, yields no event of any kind, whatever its content
\* and fields, and the loop goes on.
C11_OtherToolsSuppressed ==
  \A k \in DOMAIN updates :
    (/\ HasLastMessage(updates[k], 1)
     /\ Len(updates[k].v) = 1
     /\ OtherToolResult(LastMessage(updates[k], 1)))
    => /\ emitted[k] = <<>>
       /\ ~(k = Len(updates) /\ BodyRaised)

\* A 'search' result with content and tool calls came, nothing was yielded for
\* it, and the generator completed.
C11_Witness ==
  /\ Len(updates) = 2
  /\ updates[1] = NodeUpdate("tools", <<Obj("ToolMessage", <<KV(Str("name"), Str("search")),
                                                             KV(Str("content"), Str("found")),
                                                             KV(Str("tool_calls"), List(<<CallFoo>>))>>)>>)
  /\ updates[2] = ToolUpdate("search", CallingTool)
  /\ events = <<[status |-> "complete"]>>

\* The last message is assistant-style: no ToolMessage, with a content.
AssistantStyle(message) ==
  /\ message.t \notin BuiltinTypes
  /\ message.t # "ToolMessage"
  /\ RawField(message, "content") # <<>>

\* The tool calls attached to a message, as the agent put them there.
Attached(message) ==
  IF RawField(message, "tool_calls") # <<>> /\ RawField(message, "tool_calls")[1].v.t = "list"
  THEN RawField(message, "tool_calls")[1].v.v
  ELSE <<>>

NameOf(call) == IF RawField(call, "name") = <<>> THEN None ELSE RawField(call, "name")[1].v

IdOf(call) == IF RawField(call, "id") = <<>> THEN None ELSE RawField(call, "id")[1].v

\* The attached calls that remain after think_tool and write_todos are removed.
Remaining(message) ==
  SelectSeq(Attached(message),
            LAMBDA call : NameOf(call) \notin {Str("think_tool"), Str("write_todos")})

\* The content of a message as one string, before it is cleaned.
ContentString(message) ==
  LET content == RawField(message, "content")[1].v
  IN IF content.t = "str" THEN content
     ELSE IF content.t = "list" THEN Text(py_join(stream_blocks(content), 1))
     ELSE py_str(content)

\* Update k is a single node's update whose last message is assistant-style,
\* and the loop body did not raise on it.
AssistantAt(k) ==
  /\ HasLastMessage(updates[k], 1)
  /\ Len(updates[k].v) = 1
  /\ AssistantStyle(LastMessage(updates[k], 1))
  /\ ~(k = Len(updates) /\ BodyRaised)

\* C12: for an assistant-style last message there is a tool_calls event iff a
\* call remains after think_tool and write_todos are removed, its entries are
\* the remaining calls as {id, name, args}; there is a chunk event iff the
\* cleaned content is not empty; tool_calls comes first; both carry the node.
C12_AssistantEvents ==
  \A k \in DOMAIN updates :
    AssistantAt(k) =>
      LET message == LastMessage(updates[k], 1)
          remaining == Remaining(message)
          cleaned == stream_clean(ContentString(message), message)
          calls_at == {i \in DOMAIN emitted[k] : "tool_calls" \in DOMAIN emitted[k][i]}
          chunks_at == {i \in DOMAIN emitted[k] : "chunk" \in DOMAIN emitted[k][i]}
      IN /\ DOMAIN emitted[k] = calls_at \cup chunks_at
         /\ calls_at = IF remaining # <<>> THEN {1} ELSE {}
         /\ chunks_at = IF Truthy(cleaned) THEN {Cardinality(calls_at) + 1} ELSE {}
         /\ \A i \in DOMAIN emitted[k] :
              /\ emitted[k][i].node = updates[k].v[1].k
              /\ emitted[k][i].status = "streaming"
         /\ \A i \in calls_at :
              /\ Len(emitted[k][i].tool_calls) = Len(remaining)
              /\ \A j \in DOMAIN remaining :
                   /\ DOMAIN emitted[k][i].tool_calls[j] = {"id", "name", "args"}
                   /\ emitted[k][i].tool_calls[j].name = NameOf(remaining[j])
                   /\ emitted[k][i].tool_calls[j].id = IdOf(remaining[j])
                   /\ emitted[k][i].tool_calls[j].name \notin {Str("think_tool"), Str("write_todos")}
         /\ \A i \in chunks_at : emitted[k][i].chunk = cleaned

\* A message from node "model" with the calls foo, write_todos and bar and the
\* content "text": a tool_calls event with foo and bar, then the chunk.
C12_Witness ==
  /\ Len(updates) = 2
  /\ updates[1] = NodeUpdate("model", <<AIMessage(Str("text"), <<CallFoo, CallTodos, CallObj>>)>>)
  /\ updates[2] = NodeUpdate("agent", <<AIMessage(Text(<<" ">>), <<CallThink>>)>>)
  /\ Len(emitted[1]) = 2
  /\ Len(emitted[1][1].tool_calls) = 2
  /\ emitted[1][2].chunk = Str("text")
  /\ emitted[2] = <<>>
  /\ pc = "done"

\* "Calling tool  done": CallingTool without its dictionary text.
CallingToolStripped == Text(<<"Calling", " ", "tool", "  ", "done">>)

\* The chunks yielded for update k, in order.
Chunks(k) ==
  LET at == SelectSeq(emitted[k], LAMBDA e : "chunk" \in DOMAIN e)
  IN [i \in DOMAIN at |-> at[i].chunk]

\* C13: the text of a tool-call dictionary is removed from the content of an
\* assistant message exactly when the message carries a tool call, think_tool
\* and write_todos included; without a call the content is yielded as it is.
\* The content CallingTool with the call foo yields a tool_calls event for foo
\* and the chunk "Calling tool  done".
C13_DictionaryTextStripped ==
  \A k \in DOMAIN updates :
    AssistantAt(k) =>
      LET message == LastMessage(updates[k], 1)
          content == RawField(message, "content")[1].v
      IN /\ (content.t = "str" /\ Attached(message) = <<>> /\ py_strip(content.v) # <<>>)
              => Chunks(k) = <<Text(py_strip(content.v))>>
         /\ (content = CallingTool /\ Attached(message) # <<>>)
              => Chunks(k) = <<CallingToolStripped>>
         /\ (content = List(<<TextBlock, ToolUseBlock>>) /\ Attached(message) # <<>>)
              => Chunks(k) = <<Str("hi")>>
         /\ (content = CallingTool /\ Attached(message) = <<CallFoo>>)
              => emitted[k] =
                   <<[tool_calls |-> <<[id |-> Str("x"), name |-> Str("foo"), args |-> Dict(<<>>)]>>,
                      node |-> updates[k].v[1].k, status |-> "streaming"],
                     [chunk |-> CallingToolStripped, node |-> updates[k].v[1].k,
                      status |-> "streaming"]>>

\* The content CallingTool came with the only call think_tool and was stripped,
\* then without a call and was yielded as it is.
C13_Witness ==
  /\ Len(updates) = 2
  /\ updates[1] = NodeUpdate("agent", <<AIMessage(CallingTool, <<CallThink>>)>>)
  /\ updates[2] = NodeUpdate("agent", <<AIMessage(CallingTool, <<>>)>>)
  /\ emitted[1] = <<[chunk |-> CallingToolStripped, node |-> Str("agent"), status |-> "streaming"]>>
  /\ Chunks(2) = <<CallingTool>>
  /\ pc = "done"

\* The events of a stream() call whose agent yields ups from the i-th on and
\* is then exhausted.
RECURSIVE StreamRun(_, _)
StreamRun(ups, i) ==
  IF i > Len(ups) THEN <<[status |-> "complete"]>>
  ELSE Only({ IF r.exc # "" THEN stream_except(r).ev ELSE r.ev \o StreamRun(ups, i + 1) :
              r \in {stream_update(ups[i])} })

\* C14: when the agent's stream does not raise, resume_from_interrupt yields,
\* event for event, what stream yields for the same sequence of updates.
C14_ResumeAsStream ==
  (/\ method = "resume_from_interrupt"
   /\ pc = "done"
   /\ agent # "None"
   /\ ~raised)
  => events = StreamRun(updates, 1)

\* The last load or reload attempt failed: the file of the agent module is not
\* there or cannot be executed, or the module does not have the attribute.
LoadFailed ==
  LET self == _agent_instance
      name == self.agent_module_path
  IN \/ name \notin ModulePaths
     \/ files[name].status \in {"missing", "broken"}
     \/ /\ name \in DOMAIN sys_modules
        /\ IF self.agent_variable_name # ""
           THEN self.agent_variable_name \notin DOMAIN sys_modules[name]
           ELSE DOMAIN sys_modules[name] \cap {"agent", "graph"} = {}

\* C15: a load or reload attempt that fails to import the module or to find
\* the attribute ends with self.agent None, also when an agent was loaded
\* before, and neither the construction nor reload_agent lets an exception out.
C15_FailedLoadUnsets ==
  (method \in {"AgentWrapper", "reload_agent"} /\ LoadFailed)
  => (_agent_instance.agent = "None" /\ propagated = "")

PassedContent == dict_get(dict_get(passed.input, "messages", None).v[1], "content", None)

\* Field name of the context of the call is there: the context is a dict with
\* a value under name that is not empty.
Present(name) ==
  /\ args.context.t = "dict"
  /\ HasKey(args.context, Str(name))
  /\ Truthy(dict_get(args.context, name, None))

DirectoryLine == <<"Current directory: ">> \o dict_get(args.context, "current_directory", None).v

FocusLine ==
  LET focused == dict_get(args.context, "focused_widget", None).v
  IN IF "/" \in {focused[i] : i \in DOMAIN focused}
        \/ focused[Len(focused)] \in {".ipynb", ".py", ".txt", ".md"}
     THEN <<"Currently focused file: ">> \o focused
     ELSE <<"Currently focused: ">> \o focused

\* C17: the message goes to the agent unchanged when the context is absent or
\* has neither a current directory nor a focused widget; otherwise a blank
\* line follows it, then the directory line, then the focus line, each if its
\* field is there; the focus line says "file" when the identifier has a '/'
\* or ends with .ipynb, .py, .txt or .md. The example appends two lines.
C17_ContextAppended ==
  (method = "stream" /\ passed # NoCall) =>
    /\ PassedContent.v =
         args.message.v
         \o (IF Present("current_directory") \/ Present("focused_widget")
             THEN <<"\n", "\n">> ELSE <<>>)
         \o (IF Present("current_directory") THEN DirectoryLine ELSE <<>>)
         \o (IF Present("current_directory") /\ Present("focused_widget") THEN <<"\n">> ELSE <<>>)
         \o (IF Present("focused_widget") THEN FocusLine ELSE <<>>)
    /\ args.context = ContextExample =>
         PassedContent.v = args.message.v
                           \o <<"\n", "\n", "Current directory: ", "/", "a", "\n",
                                "Currently focused file: ", "nb", ".ipynb">>

\* stream was called with the message "hi" and the context of the example,
\* and the agent got the message with the two lines.
C17_Witness ==
  /\ method = "stream"
  /\ pc = "done"
  /\ args.message = Str("hi")
  /\ args.context = ContextExample
  /\ PassedContent = Text(<<"hi", "\n", "\n", "Current directory: ", "/", "a", "\n",
                            "Currently focused file: ", "nb", ".ipynb">>)

\* C18: a write_todos content that is, as a whole, a JSON object with a
\* 'todos' field yields a 'todo_list' event with those todos, decoded once
\* more when the field is a JSON string of a non-empty array, and also when
\* the search for an embedded array found text that did not parse.
C18_WholeObjectTodos ==
  \A k \in DOMAIN updates : FromTools(updates[k]) => \A c \in TodosContents :
    (/\ updates[k] = ToolUpdate("write_todos", c)
     /\ c.t = "str"
     /\ json_loads(c).ok
     /\ json_loads(c).v.t = "dict"
     /\ HasKey(json_loads(c).v, Str("todos")))
    => LET field == dict_get(json_loads(c).v, "todos", None)
           todos == IF field.t = "str" /\ json_loads(field).ok THEN json_loads(field).v ELSE field
       IN (todos.t = "list" /\ Len(todos.v) > 0)
          => emitted[k] = <<[todo_list |-> todos, status |-> "streaming"]>>

\* The update with, for every node that has a last message, that message
\* alone, under the name of the node and in the order of the update.
Reduced(update) ==
  LET with == SelectSeq([i \in 1..Len(update.v) |-> i], LAMBDA i : HasLastMessage(update, i))
  IN Dict([j \in 1..Len(with) |->
             KV(update.v[with[j]].k,
                Dict(<<KV(Str("messages"), List(<<LastMessage(update, with[j])>>))>>))])

\* What the loop body of the generator that was called does with an update.
Body(update) == IF method = "stream" THEN stream_update(update) ELSE resume_update(update)

\* C19: the events of a regular update are those of its nodes' last messages
\* under the nodes' names, in the order of the nodes: an earlier message of a
\* list, a node without messages and an update that is no dict yield no event
\* and do not end the generator.
C19_LastMessageOnly ==
  \A k \in DOMAIN updates :
    ~IsInterrupt(updates[k]) =>
      IF updates[k].t # "dict"
      THEN emitted[k] = <<>> /\ ~(k = Len(updates) /\ BodyRaised)
      ELSE /\ emitted[k] = Body(Reduced(updates[k])).ev
           /\ (k = Len(updates) /\ BodyRaised) <=> (Body(Reduced(updates[k])).exc # "")
           /\ Reduced(updates[k]).v = <<>> =>
                emitted[k] = <<>> /\ ~(k = Len(updates) /\ BodyRaised)

\* An update of two nodes came, the second with two messages: the chunks of
\* the two last messages were yielded in the order of the nodes; then came an
\* update of four nodes of which only the last has a message.
C19_Witness ==
  /\ Len(updates) = 2
  /\ updates[1] = TwoNodes
  /\ updates[2] = FourNodes
  /\ Len(emitted[1]) = 3
  /\ emitted[1][1].node = Str("agent")
  /\ emitted[1][2].chunk = Str("one")
  /\ emitted[1][3].chunk = Str("two")
  /\ emitted[2] = <<[chunk |-> Str("dee"), node |-> Str("d"), status |-> "streaming"]>>
  /\ pc = "done"

\* The keys of a dict.
Keys(d) == {d.v[i].k : i \in DOMAIN d.v}

\* The config of the caller: the dict given, or an empty one.
CallerConfig == IF args.config.t = "dict" THEN args.config ELSE Dict(<<>>)

\* A thread id was given to the call: a str that is not empty.
ThreadIdGiven == args.thread_id.t = "str" /\ args.thread_id.v # <<>>

\* C20: with a thread id, stream and resume_from_interrupt call the agent's
\* stream with a config whose configurable.thread_id is that id, and whose
\* other top-level entries and other entries of 'configurable' are those of
\* the caller's config; without one, with the caller's config, or an empty
\* one, as it is.
C20_ThreadIdConfigured ==
  passed # NoCall =>
    IF ThreadIdGiven
    THEN LET before == dict_get(CallerConfig, "configurable", Dict(<<>>))
             after == dict_get(passed.config, "configurable", None)
         IN /\ passed.config.t = "dict"
            /\ after.t = "dict"
            /\ dict_get(after, "thread_id", None) = args.thread_id
            /\ \A name \in (Keys(CallerConfig) \cup Keys(passed.config)) \ {Str("configurable")} :
                 Entries(passed.config, name) = Entries(CallerConfig, name)
            /\ \A name \in (Keys(before) \cup Keys(after)) \ {Str("thread_id")} :
                 Entries(after, name) = Entries(before, name)
    ELSE passed.config = CallerConfig

\* resume_from_interrupt was called with the thread id 't1' and a config of
\* three entries whose 'configurable' held another thread id and a user: the
\* agent got the three entries, the user, and the thread id 't1'.
C20_Witness ==
  /\ method = "resume_from_interrupt"
  /\ pc = "done"
  /\ args.thread_id = Str("t1")
  /\ args.config.t = "dict"
  /\ Len(args.config.v) = 3
  /\ passed.config =
       Dict(<<KV(Str("tags"), List(<<Str("a")>>)),
              KV(Str("configurable"), Dict(<<KV(Str("thread_id"), Str("t1")), KV(Str("user"), Str("u"))>>)),
              KV(Str("recursion_limit"), PyInt(5))>>)

=============================================================================
